---------------------------- MODULE Spec2Model ----------------------------
(***************************************************************************)
(* Axion planner: dependency graph (pkg/graph), orchestrator               *)
(* (pkg/orchestrator), file/directory/command resources (pkg/resource)     *)
(* and the agent's file and directory handlers (pkg/api).                  *)
(*                                                                         *)
(* The specifications share the variables:                                 *)
(*   SpecGraph     the graph API driven directly (AddNode, AddEdge,        *)
(*                 AddEdgeByName, Sort);                                   *)
(*   Spec          the orchestrator (Add, Run, cancellation) over          *)
(*                 resources seen through the Resource interface: every    *)
(*                 method's result is an input;                            *)
(*   SpecLive      Spec with a Run that keeps taking its steps;            *)
(*   SpecAgent     the orchestrator over file/directory/command resources  *)
(*                 whose requests are answered by the agent's handlers;    *)
(*   SpecCommands  SpecAgent with two command resources;                   *)
(*   SpecDrift     SpecAgent with another client of the agent;             *)
(*   SpecApi       the agent serving the requests of two clients;          *)
(*   SpecRace      two goroutines calling Sort, AddEdge and AddEdgeByName, *)
(*                 cut at the lock and at each access of Node.edges;       *)
(*   SpecAddRun    Add called by one goroutine while another is in a plan  *)
(*                 Run;                                                    *)
(*   SpecLeftover  SpecAgent over a backup directory that holds archives   *)
(*                 of an earlier Run;                                      *)
(*   SpecArtifacts the names backupPath gives the archives of a registry.  *)
(***************************************************************************)
EXTENDS Integers, Sequences, FiniteSets, TLC

VARIABLES
    nodes,        \* Graph.nodes: the names that are keys of the map
    edges,        \* Node.edges of the node stored under each name
    cachedOrder,  \* Graph.cachedOrder: [isNil, order]
    gret,         \* what the last graph API call returned
    options,      \* Orchestrator.options
    specs,        \* Orchestrator.specs: ResourceSpec by id
    oret,         \* what the last Orchestrator.Add returned
    pc,           \* where Run stands: idle, loop, backup, apply, rollback, done
    planOnly,     \* Run's parameter
    ctxDone,      \* ctx.Done() of the running Run is closed
    order,        \* Run's local nodes: what Sort returned
    i,            \* index of the node the loop of Run is at (1-based)
    failed,       \* Run's local failed
    applied,      \* Run's local applied, as ids
    rb,           \* index i of the loop of rollback (1-based; 0: past the end)
    count,        \* rollback's local count
    summary,      \* the Summary Run builds and returns
    calls,        \* resource methods invoked in the current Run, in order
    events,       \* reporter events of the current Run, in order
    res,          \* per spec id, the fields a File/Directory keeps between calls
    fs,           \* the agent's filesystem: per path, what os.Stat reports
    backups,      \* the controller's backup directory: per path, the archive
    fs0,          \* the agent's filesystem when the current Run began
    reqs,         \* per client, the request the agent is handling for it
    threads,      \* per goroutine calling the graph or Add: where it stands, its locals
    mu,           \* Graph.mu: the goroutine holding the write lock, or NoThread
    returned,     \* per source and target, the edge-adding calls that have returned
    cachedFrom,   \* the adjacency copy from which cachedOrder was computed
    artifacts     \* the backup directory by file name: whose archive each file
                  \* holds, who has made a backup, whose archive was uploaded

graphVars == <<nodes, edges, cachedOrder>>
orchVars == <<options, specs, oret>>
runVars == <<pc, planOnly, ctxDone, order, i, failed, applied, rb, count, summary>>
logVars == <<calls, events>>
agentVars == <<res, fs, backups, fs0, reqs>>
concVars == <<threads, mu, returned, cachedFrom, artifacts>>
vars == <<graphVars, gret, orchVars, runVars, logVars, agentVars, concVars>>

(***************************************************************************)
(* Bounds and universes                                                    *)
(***************************************************************************)
Ids == {"a", "b", "c"}          \* names that are added as nodes / spec ids
Foreign == {"x"}                \* a node object that is never added
Names == Ids \cup Foreign

MaxEdges == 2                   \* edges held by the graph
MaxTargets == 2                 \* targets given to one AddEdge call
MaxDeps == 2                    \* dependency names held by the registered specs
MaxMtime == 2                   \* modification times a path goes through

\* an error is the chain of its messages, outermost first; nil is the empty chain
Nil == <<>>
IsErr(e) == e # Nil
Wrap(msg, e) == <<msg>> \o e
ErrCircularDependency == <<"circular dependency found">>
ErrNodeNotFound == <<"node not found">>
ErrCanceled == <<"context canceled">>

(***************************************************************************)
(* Helpers                                                                 *)
(***************************************************************************)
Range(s) == {s[k] : k \in 1..Len(s)}

Count(m, s) == Cardinality({k \in 1..Len(s) : s[k] = m})

RECURSIVE SumOver(_, _)
SumOver(S, f) ==
    IF S = {} THEN 0
    ELSE LET e == CHOOSE e \in S : TRUE IN f[e] + SumOver(S \ {e}, f)

\* every order in which a Go map range may visit the keys S
Perms(S) ==
    {p \in [1..Cardinality(S) -> S] : \A j, k \in 1..Cardinality(S) : p[j] = p[k] => j = k}

SeqsUpTo(S, n) == UNION {[1..k -> S] : k \in 0..n}

NilOrder == [isNil |-> TRUE, order |-> <<>>]

(***************************************************************************)
(* Graph.sort: Kahn's algorithm on in-degrees                              *)
(***************************************************************************)
\* inDegree after the initialisation loop: every key of g.nodes is present,
\* and every edge target (a node of the graph or not) is counted by name
inDegreeOf(ns, es) ==
    [m \in Names |-> SumOver(ns, [s \in ns |-> Count(m, es[s])])]

\* the keys of the inDegree map
inDegreeKeys(ns, es) == ns \cup UNION {Range(es[s]) : s \in ns}

\* the inner loop: for each neighbour m of n, decrement and enqueue at zero
RECURSIVE relax(_, _, _)
relax(adj, deg, queue) ==
    IF adj = <<>> THEN [deg |-> deg, queue |-> queue]
    ELSE LET m == Head(adj)
             d == [deg EXCEPT ![m] = @ - 1]
         IN relax(Tail(adj), d, IF d[m] = 0 THEN Append(queue, m) ELSE queue)

\* the outer loop: dequeue n, append it to sorted, relax adj[n.Name]
RECURSIVE kahn(_, _, _, _, _)
kahn(ns, es, queue, deg, sorted) ==
    IF queue = <<>> THEN sorted
    ELSE LET n == Head(queue)
             adj == IF n \in ns THEN es[n] ELSE <<>>
             r == relax(adj, deg, Tail(queue))
         IN kahn(ns, es, r.queue, r.deg, Append(sorted, n))

\* the cycle check of sort: the length of sorted against the node count
CycleFoundMutant(sorted, ns) == FALSE
CycleFound(sorted, ns) == Len(sorted) # Cardinality(ns)

\* the seeds of the queue: the zero in-degree keys, in map iteration order
Seeds(ns, es) ==
    Perms({m \in inDegreeKeys(ns, es) : inDegreeOf(ns, es)[m] = 0})

\* sort() for one seed order
sort(ns, es, seed) ==
    LET sorted == kahn(ns, es, seed, inDegreeOf(ns, es), <<>>)
    IN IF CycleFound(sorted, ns)
       THEN [err |-> ErrCircularDependency, order |-> <<>>]
       ELSE [err |-> Nil, order |-> sorted]

(***************************************************************************)
(* Graph API, on a graph value g = [nodes, edges, cachedOrder]             *)
(***************************************************************************)
G == [nodes |-> nodes, edges |-> edges, cachedOrder |-> cachedOrder]

SetG(g) ==
    /\ nodes' = g.nodes
    /\ edges' = g.edges
    /\ cachedOrder' = g.cachedOrder

\* Invalidate(): cachedOrder = nil
Invalidate(g) == [g EXCEPT !.cachedOrder = NilOrder]

\* AddNode(NewNode(n)): a same-named node is overwritten; the cache is kept
AddNode(g, n) ==
    [g EXCEPT !.nodes = @ \cup {n}, !.edges[n] = <<>>]

\* AddEdge(source, targets...): targets are not looked up
AddEdge(g, source, targets) ==
    IF source \in g.nodes
    THEN [g |-> Invalidate([g EXCEPT !.edges[source] = @ \o targets]), err |-> Nil]
    ELSE [g |-> g, err |-> ErrNodeNotFound]

\* AddEdgeByName(sourceName, targetNames...): source and targets are looked up
AddEdgeByNamePartial(g, sourceName, targetNames) ==
    IF sourceName \notin g.nodes
    THEN [g |-> g, err |-> Wrap("source node", ErrNodeNotFound)]
    ELSE LET found == SelectSeq(targetNames, LAMBDA t : t \in g.nodes)
         IN [g |-> Invalidate([g EXCEPT !.edges[sourceName] = @ \o found]),
             err |-> IF found = targetNames THEN Nil
                     ELSE Wrap("target node", ErrNodeNotFound)]
AddEdgeByName(g, sourceName, targetNames) ==
    IF sourceName \notin g.nodes
    THEN [g |-> g, err |-> Wrap("source node", ErrNodeNotFound)]
    ELSE IF ~(Range(targetNames) \subseteq g.nodes)
    THEN [g |-> g, err |-> Wrap("target node", ErrNodeNotFound)]
    ELSE [g |-> Invalidate([g EXCEPT !.edges[sourceName] = @ \o targetNames]),
          err |-> Nil]

\* Sort(): the cached order if there is one, else sort() and cache on success
SortUncached(g, seed) ==
    LET r == sort(g.nodes, g.edges, seed)
    IN [g |-> g, err |-> r.err, order |-> r.order, fromCache |-> FALSE]
Sort(g, seed) ==
    IF ~g.cachedOrder.isNil
    THEN [g |-> g, err |-> Nil, order |-> g.cachedOrder.order, fromCache |-> TRUE]
    ELSE LET r == sort(g.nodes, g.edges, seed)
         IN [g |-> IF r.err = Nil
                   THEN [g EXCEPT !.cachedOrder = [isNil |-> FALSE, order |-> r.order]]
                   ELSE g,
             err |-> r.err, order |-> r.order, fromCache |-> FALSE]

TotalEdges == SumOver(Names, [s \in Names |-> Len(edges[s])])

NoRet == [op |-> "none", err |-> Nil, order |-> <<>>, fromCache |-> FALSE]

(***************************************************************************)
(* The agent: what its handlers do to the filesystem.  A path is a regular *)
(* file or a directory by its name; what a directory holds and what a file *)
(* contains are not modelled.  The modification time of a path counts its  *)
(* content changes and is remembered while the path is absent, so that a   *)
(* path created again gets a later time.                                   *)
(***************************************************************************)
Paths == {"/f", "/d"}

IsDir(path) == path = "/d"

NoETag == <<>>

NoFile == [exists |-> FALSE, Mode |-> 0, Uid |-> 0, Gid |-> 0, mtime |-> 0]

NoArchive == [present |-> FALSE, Mode |-> 0]

Oct(a, b, c) == a * 64 + b * 8 + c

\* decodeFileMode: strconv.ParseUint(modeString, 8, 32); negative: an error
decodeFileMode(modeString) ==
    CASE modeString = "0600" -> Oct(6, 0, 0)
      [] modeString = "600" -> Oct(6, 0, 0)
      [] modeString = "0644" -> Oct(6, 4, 4)
      [] modeString = "0700" -> Oct(7, 0, 0)
      [] modeString = "0755" -> Oct(7, 5, 5)
      [] OTHER -> -1

\* encodeFileMode: fmt.Sprintf("0%o", mode.Perm())
encodeFileMode(mode) ==
    CASE mode = Oct(6, 0, 0) -> "0600"
      [] mode = Oct(6, 4, 4) -> "0644"
      [] mode = Oct(7, 0, 0) -> "0700"
      [] mode = Oct(7, 5, 5) -> "0755"

\* user.Lookup / user.LookupGroup on the agent's host; negative: unknown
Lookup(name) ==
    CASE name = "root" -> 0
      [] name = "app" -> 1000
      [] OTHER -> -1

\* user.LookupId / user.LookupGroupId on the agent's host
LookupId(id) == IF id = 0 THEN "root" ELSE "app"

\* generateFileETag: a hash of mode, uid, gid and modification time
generateFileETagOfMtime(fi) == <<0, 0, 0, fi.mtime>>
generateFileETag(fi) == <<fi.Mode, fi.Uid, fi.Gid, fi.mtime>>

\* handleGetFileProperties / handleGetDirectoryProperties
handleGetFileProperties(fsys, path) ==
    LET fi == fsys[path]
    IN IF ~fi.exists
       THEN [code |-> "404",
             payload |-> [isNil |-> TRUE, Mode |-> "", Owner |-> "", Group |-> ""],
             etag |-> NoETag]
       ELSE [code |-> "200",
             payload |-> [isNil |-> FALSE, Mode |-> encodeFileMode(fi.Mode),
                          Owner |-> LookupId(fi.Uid), Group |-> LookupId(fi.Gid)],
             etag |-> generateFileETag(fi)]

\* putFile / putDirectory: create if missing (0644, or 0755 for a directory,
\* owned by the agent's user), then chmod and chown what was given
putFile(fsys, path, mode, uid, gid) ==
    LET fi == fsys[path]
        made == IF fi.exists THEN fi
                ELSE [exists |-> TRUE,
                      Mode |-> IF IsDir(path) THEN Oct(7, 5, 5) ELSE Oct(6, 4, 4),
                      Uid |-> Lookup("root"), Gid |-> Lookup("root"),
                      mtime |-> fi.mtime + 1]
    IN [fs |-> [fsys EXCEPT ![path] =
                  [made EXCEPT !.Mode = IF mode >= 0 THEN mode ELSE @,
                               !.Uid = IF uid >= 0 THEN uid ELSE @,
                               !.Gid = IF gid >= 0 THEN gid ELSE @]],
        created |-> ~fi.exists]

\* handlePutFile / handlePutDirectory; the 201 and 204 responses are built
\* without WithETag, so they carry no ETag header
handlePutFile(fsys, path, props, ifMatch) ==
    LET mode == IF props.Mode = "" THEN -1 ELSE decodeFileMode(props.Mode)
        uid == IF props.Owner = "" THEN -1 ELSE Lookup(props.Owner)
        gid == IF props.Group = "" THEN -1 ELSE Lookup(props.Group)
        fi == fsys[path]
        refuse(code) == [code |-> code, fs |-> fsys, etag |-> NoETag]
    IN IF props.Mode # "" /\ mode < 0 THEN refuse("400")
       ELSE IF props.Owner # "" /\ uid < 0 THEN refuse("400")
       ELSE IF props.Group # "" /\ gid < 0 THEN refuse("400")
       ELSE IF ifMatch # NoETag /\ ~fi.exists THEN refuse("412")
       ELSE IF ifMatch # NoETag /\ ifMatch # generateFileETag(fi) THEN refuse("409")
       ELSE IF ifMatch = NoETag /\ fi.exists THEN refuse("428")
       ELSE LET r == putFile(fsys, path, mode, uid, gid)
            IN [code |-> IF r.created THEN "201" ELSE "204", fs |-> r.fs, etag |-> NoETag]

\* handleDeleteFile / handleDeleteDirectory
handleDeleteUnconditional(fsys, path, ifMatch) ==
    LET fi == fsys[path]
    IN IF ~fi.exists THEN [code |-> "204", fs |-> fsys]
       ELSE [code |-> "204",
             fs |-> [fsys EXCEPT ![path] = [NoFile EXCEPT !.mtime = fi.mtime]]]
handleDeleteFile(fsys, path, ifMatch) ==
    LET fi == fsys[path]
    IN IF ~fi.exists THEN [code |-> "204", fs |-> fsys]
       ELSE IF ifMatch = NoETag THEN [code |-> "428", fs |-> fsys]
       ELSE IF ifMatch # generateFileETag(fi) THEN [code |-> "409", fs |-> fsys]
       ELSE [code |-> "204",
             fs |-> [fsys EXCEPT ![path] = [NoFile EXCEPT !.mtime = fi.mtime]]]

\* handleDownload: the archive keeps the mode of a file; of a directory it
\* keeps the entries only, not the directory itself
handleDownload(fsys, path, recursive) ==
    LET fi == fsys[path]
    IN IF ~fi.exists THEN [code |-> "404", archive |-> NoArchive]
       ELSE IF IsDir(path) # recursive THEN [code |-> "409", archive |-> NoArchive]
       ELSE [code |-> "200",
             archive |-> [present |-> TRUE,
                          Mode |-> IF IsDir(path) THEN 0 ELSE fi.Mode]]

\* handleUpload: a file is opened with O_CREATE|O_TRUNC and the archived mode,
\* a directory is made with MkdirAll(path, 0755); neither is chowned
handleUpload(fsys, path, recursive, archive) ==
    LET fi == fsys[path]
    IN IF fi.exists /\ IsDir(path) # recursive THEN [code |-> "409", fs |-> fsys]
       ELSE IF recursive
       THEN IF fi.exists THEN [code |-> "204", fs |-> fsys]
            ELSE [code |-> "201",
                  fs |-> [fsys EXCEPT ![path] =
                            [exists |-> TRUE, Mode |-> Oct(7, 5, 5),
                             Uid |-> Lookup("root"), Gid |-> Lookup("root"),
                             mtime |-> fi.mtime + 1]]]
       ELSE IF fi.exists
       THEN [code |-> "204", fs |-> [fsys EXCEPT ![path].mtime = @ + 1]]
       ELSE [code |-> "201",
             fs |-> [fsys EXCEPT ![path] =
                       [exists |-> TRUE, Mode |-> archive.Mode,
                        Uid |-> Lookup("root"), Gid |-> Lookup("root"),
                        mtime |-> fi.mtime + 1]]]

\* the clients whose requests the agent serves, each in a goroutine of its own
Clients == {"c1", "c2"}

NoProps == [Mode |-> "", Owner |-> "", Group |-> ""]

\* an entity tag that is the tag of no path
StaleTag == <<"stale">>

\* no request of the client is with the agent
NoRequest ==
    [op |-> "none", path |-> "", props |-> NoProps, ifMatch |-> NoETag,
     at |-> "idle", seen |-> NoFile, code |-> "", wrote |-> FALSE, overlap |-> {}]

(***************************************************************************)
(* Resources (pkg/resource).  File and Directory have the same code but    *)
(* for the recursive flag of their archives; a request made with a done    *)
(* context fails in the client and does not reach the agent.               *)
(***************************************************************************)
\* a resource seen through the Resource interface only
MockResource(b) ==
    [kind |-> "mock", path |-> "", desiredState |-> "present",
     Mode |-> "", Owner |-> "", Group |-> "", backupable |-> b]

\* NewFile / NewDirectory; a nil property is the empty string
NewFile(state, path, mode, owner, group) ==
    [kind |-> "file", path |-> path, desiredState |-> state,
     Mode |-> mode, Owner |-> owner, Group |-> group, backupable |-> TRUE]

NewDirectory(state, path, mode, owner, group) ==
    [kind |-> "directory", path |-> path, desiredState |-> state,
     Mode |-> mode, Owner |-> owner, Group |-> group, backupable |-> TRUE]

\* NewCommand with the default options
NewCommand(command) ==
    [kind |-> "command", path |-> command, desiredState |-> "present",
     Mode |-> "", Owner |-> "", Group |-> "", backupable |-> TRUE]

\* Resource.Name()
Name(r) == <<r.kind, r.path>>

\* the type assertion r.(resource.Backupable)
Backupable(r) == r.backupable

\* Validate() of File, Directory and Command; nil where there is none
ValidateNothing(r) == Nil
Validate(r) ==
    CASE r.kind \in {"file", "directory"} ->
           IF r.desiredState \notin {"absent", "present"}
           THEN <<"invalid desired state">>
           ELSE IF r.path = "" THEN <<"path cannot be empty">>
           ELSE IF r.Mode # "" /\ decodeFileMode(r.Mode) < 0 THEN <<"invalid mode">>
           ELSE Nil
      [] r.kind = "command" ->
           IF r.path = "" THEN <<"command cannot be empty">> ELSE Nil
      [] OTHER -> Nil

\* the fields of a File or Directory that its methods write
NewResourceState ==
    [currentState |-> "",
     currentProperties |-> [isNil |-> TRUE, Mode |-> "", Owner |-> "", Group |-> ""],
     etag |-> NoETag, lastOperation |-> "none"]

APIError(code) == <<"Error code", code>>

propertiesMatchStrict(r, st) ==
    /\ ~st.currentProperties.isNil
    /\ r.Mode = st.currentProperties.Mode
    /\ r.Owner = st.currentProperties.Owner
    /\ r.Group = st.currentProperties.Group
propertiesMatch(r, st) ==
    /\ ~st.currentProperties.isNil
    /\ r.Mode = "" \/ r.Mode = st.currentProperties.Mode
    /\ r.Owner = "" \/ r.Owner = st.currentProperties.Owner
    /\ r.Group = "" \/ r.Group = st.currentProperties.Group

\* File.Check / Directory.Check
FileCheckStale(r, st, fsys, cancelled) ==
    LET resp == handleGetFileProperties(fsys, r.path)
    IN IF cancelled
       THEN [st |-> st, needsApply |-> FALSE, err |-> <<"failed to check file">>]
       ELSE IF resp.code = "404"
       THEN [st |-> [st EXCEPT !.currentState = "absent",
                               !.currentProperties = resp.payload,
                               !.etag = NoETag],
             needsApply |-> r.desiredState = "present", err |-> Nil]
       ELSE [st |-> [st EXCEPT !.currentState = "present",
                               !.currentProperties = resp.payload,
                               !.etag = resp.etag],
             needsApply |-> IF r.desiredState = "absent" THEN TRUE
                            ELSE ~propertiesMatch(r, st),
             err |-> Nil]
FileCheck(r, st, fsys, cancelled) ==
    LET resp == handleGetFileProperties(fsys, r.path)
    IN IF cancelled
       THEN [st |-> st, needsApply |-> FALSE, err |-> <<"failed to check file">>]
       ELSE IF resp.code = "404"
       THEN [st |-> [st EXCEPT !.currentState = "absent",
                               !.currentProperties = resp.payload,
                               !.etag = NoETag],
             needsApply |-> r.desiredState = "present", err |-> Nil]
       ELSE LET seen == [st EXCEPT !.currentState = "present",
                                   !.currentProperties = resp.payload,
                                   !.etag = resp.etag]
            IN [st |-> seen,
                needsApply |-> IF r.desiredState = "absent" THEN TRUE
                               ELSE ~propertiesMatch(r, seen),
                err |-> Nil]

\* the lines compare() writes for one property
DiffLines(name, desired, actual) ==
    IF desired # "" /\ desired # actual
    THEN <<<<"-", name, actual>>, <<"+", name, desired>>>>
    ELSE <<>>

\* File.Diff / Directory.Diff
FileDiff(r, st) ==
    IF r.desiredState = "absent" /\ st.currentState = "present"
    THEN [text |-> <<<<"diff --", r.path>>, <<"-", "present">>>>, err |-> Nil]
    ELSE IF r.desiredState = "present" /\ st.currentState = "absent"
    THEN [text |-> <<<<"diff --", r.path>>, <<"+", "present">>>>, err |-> Nil]
    ELSE IF st.currentProperties.isNil
    THEN [text |-> <<>>, err |-> <<"no current state available for diff">>]
    ELSE [text |-> <<<<"diff --", r.path>>>>
                   \o DiffLines("mode", r.Mode, st.currentProperties.Mode)
                   \o DiffLines("owner", r.Owner, st.currentProperties.Owner)
                   \o DiffLines("group", r.Group, st.currentProperties.Group),
          err |-> Nil]

\* File.Apply / Directory.Apply
FileApplyUnconditional(r, st, fsys, cancelled) ==
    LET begun == [st EXCEPT !.lastOperation = "none"]
        props == [Mode |-> r.Mode, Owner |-> r.Owner, Group |-> r.Group]
        del == handleDeleteFile(fsys, r.path, NoETag)
        put == handlePutFile(fsys, r.path, props, NoETag)
    IN IF r.desiredState = "absent"
       THEN IF st.currentState = r.desiredState
            THEN [st |-> begun, fs |-> fsys, err |-> Nil]
            ELSE IF cancelled
            THEN [st |-> begun, fs |-> fsys,
                  err |-> Wrap("failed to apply file", ErrCanceled)]
            ELSE IF del.code # "204"
            THEN [st |-> begun, fs |-> del.fs, err |-> APIError(del.code)]
            ELSE [st |-> [begun EXCEPT !.lastOperation = "delete"],
                  fs |-> del.fs, err |-> Nil]
       ELSE IF cancelled
       THEN [st |-> begun, fs |-> fsys,
             err |-> Wrap("failed to apply file", ErrCanceled)]
       ELSE IF put.code = "201"
       THEN [st |-> [begun EXCEPT !.lastOperation = "create", !.etag = put.etag],
             fs |-> put.fs, err |-> Nil]
       ELSE IF put.code = "204"
       THEN [st |-> [begun EXCEPT !.lastOperation = "update", !.etag = put.etag],
             fs |-> put.fs, err |-> Nil]
       ELSE [st |-> begun, fs |-> put.fs, err |-> APIError(put.code)]
FileApply(r, st, fsys, cancelled) ==
    LET begun == [st EXCEPT !.lastOperation = "none"]
        props == [Mode |-> r.Mode, Owner |-> r.Owner, Group |-> r.Group]
        del == handleDeleteFile(fsys, r.path, st.etag)
        put == handlePutFile(fsys, r.path, props,
                             IF ~st.currentProperties.isNil THEN st.etag ELSE NoETag)
    IN IF r.desiredState = "absent"
       THEN IF st.currentState = r.desiredState
            THEN [st |-> begun, fs |-> fsys, err |-> Nil]
            ELSE IF cancelled
            THEN [st |-> begun, fs |-> fsys,
                  err |-> Wrap("failed to apply file", ErrCanceled)]
            ELSE IF del.code # "204"
            THEN [st |-> begun, fs |-> del.fs, err |-> APIError(del.code)]
            ELSE [st |-> [begun EXCEPT !.lastOperation = "delete"],
                  fs |-> del.fs, err |-> Nil]
       ELSE IF cancelled
       THEN [st |-> begun, fs |-> fsys,
             err |-> Wrap("failed to apply file", ErrCanceled)]
       ELSE IF put.code = "201"
       THEN [st |-> [begun EXCEPT !.lastOperation = "create", !.etag = put.etag],
             fs |-> put.fs, err |-> Nil]
       ELSE IF put.code = "204"
       THEN [st |-> [begun EXCEPT !.lastOperation = "update", !.etag = put.etag],
             fs |-> put.fs, err |-> Nil]
       ELSE [st |-> begun, fs |-> put.fs, err |-> APIError(put.code)]

\* File.Backup / Directory.Backup with backup(): the archive file is created
\* before the download and removed when the download fails
FileBackup(r, st, fsys, bk, cancelled) ==
    LET resp == handleDownload(fsys, r.path, r.kind = "directory")
        removed == [bk EXCEPT ![r.path] = NoArchive]
    IN IF st.currentState # "present" \/ r.desiredState # "absent"
       THEN [bk |-> bk, backuped |-> FALSE, err |-> Nil]
       ELSE IF cancelled
       THEN [bk |-> removed, backuped |-> FALSE,
             err |-> Wrap("failed to backup file", ErrCanceled)]
       ELSE IF resp.code # "200"
       THEN [bk |-> removed, backuped |-> FALSE, err |-> APIError(resp.code)]
       ELSE [bk |-> [bk EXCEPT ![r.path] = resp.archive], backuped |-> TRUE, err |-> Nil]

\* File.Rollback / Directory.Rollback with rollbackProperties and
\* restoreFromBackup
FileRollback(r, st, fsys, bk, cancelled) ==
    LET del == handleDeleteFile(fsys, r.path, st.etag)
        put == handlePutFile(fsys, r.path,
                             [Mode |-> st.currentProperties.Mode,
                              Owner |-> st.currentProperties.Owner,
                              Group |-> st.currentProperties.Group],
                             st.etag)
        up == handleUpload(fsys, r.path, r.kind = "directory", bk[r.path])
    IN CASE st.lastOperation = "none" -> [fs |-> fsys, err |-> Nil]
         [] st.lastOperation = "create" ->
              IF cancelled
              THEN [fs |-> fsys, err |-> Wrap("failed to delete file", ErrCanceled)]
              ELSE IF del.code # "204"
              THEN [fs |-> del.fs, err |-> APIError(del.code)]
              ELSE [fs |-> del.fs, err |-> Nil]
         [] st.lastOperation = "update" ->
              IF st.currentProperties.isNil
              THEN [fs |-> fsys, err |-> <<"no properties to rollback">>]
              ELSE IF cancelled
              THEN [fs |-> fsys, err |-> Wrap("failed to put file", ErrCanceled)]
              ELSE IF put.code \notin {"201", "204"}
              THEN [fs |-> put.fs, err |-> APIError(put.code)]
              ELSE [fs |-> put.fs, err |-> Nil]
         [] st.lastOperation = "delete" ->
              IF ~bk[r.path].present
              THEN [fs |-> fsys, err |-> <<"no backup file found">>]
              ELSE IF cancelled
              THEN [fs |-> fsys,
                    err |-> Wrap("failed to restore file from backup", ErrCanceled)]
              ELSE IF up.code \notin {"201", "204"}
              THEN [fs |-> up.fs, err |-> APIError(up.code)]
              ELSE [fs |-> up.fs, err |-> Nil]

\* Command.Diff
CommandDiff(r) ==
    [text |-> <<<<"diff --", r.path>>, <<"+", "will execute">>>>, err |-> Nil]

\* the exit codes a command may end with
ExitCodes == {0, 1}

\* executeCommand: the command ran and ended with an exit code, or could not
\* be started (500; a command that runs into the deadline is answered alike,
\* with 408)
CommandRuns ==
    {[code |-> "200", ExitCode |-> e] : e \in ExitCodes}
    \cup {[code |-> "500", ExitCode |-> 0]}

\* options.ExpectedExitCodes of a Command made by NewCommand without options
ExpectedExitCodes(r) == {0}

\* handleCommand, given what executeCommand returns: Success is decided by
\* the agent from the expected exit codes of the request, [0] if none is sent
handleCommandAnyExit(command, expected, run) ==
    [code |-> run.code, ExitCode |-> run.ExitCode, Success |-> run.code = "200"]
handleCommand(command, expected, run) ==
    IF command = "" THEN [code |-> "400", ExitCode |-> 0, Success |-> FALSE]
    ELSE IF run.code # "200" THEN [code |-> run.code, ExitCode |-> 0, Success |-> FALSE]
    ELSE [code |-> "200", ExitCode |-> run.ExitCode,
          Success |-> run.ExitCode \in (IF expected = {} THEN {0} ELSE expected)]

\* CommandExecutionError: the exit code and the expected codes
CommandExecutionError(r, resp) ==
    <<"command failed with exit code", ToString(resp.ExitCode),
      "expected", ToString(ExpectedExitCodes(r))>>

\* Command.Apply, given what executeCommand returns on the agent
CommandApply(r, cancelled, run) ==
    IF cancelled THEN Wrap("failed to execute command", ErrCanceled)
    ELSE LET resp == handleCommand(r.path, ExpectedExitCodes(r), run)
         IN IF resp.code # "200" THEN APIError(resp.code)
            ELSE IF ~resp.Success THEN CommandExecutionError(r, resp)
            ELSE Nil

(***************************************************************************)
(* Orchestrator: Attempt, Summary, Add, initialize                         *)
(***************************************************************************)
NewAttempt(id, name) ==
    [Id |-> id, Name |-> name, Changes |-> <<>>, NeedsApply |-> FALSE,
     EvaluationError |-> Nil,
     BackupAttempted |-> FALSE, BackedUp |-> FALSE, BackupError |-> Nil,
     ApplyAttempted |-> FALSE, Applied |-> FALSE, ApplyError |-> Nil,
     RollbackAttempted |-> FALSE, RolledBack |-> FALSE, RollbackError |-> Nil,
     Skipped |-> FALSE]

NoAttempts == [id \in {} |-> NewAttempt(id, <<>>)]

newSummary ==
    [Success |-> FALSE, Error |-> Nil, Attempts |-> NoAttempts,
     TotalCount |-> 0, AppliedCount |-> 0, SkippedCount |-> 0, RollbackCount |-> 0]

TotalDeps(sp) == SumOver(DOMAIN sp, [id \in DOMAIN sp |-> Len(sp[id].Dependencies)])

\* Add(rs): register the spec and a node named by its id
AddLocked(rs) ==
    /\ TotalDeps(specs) + Len(rs.Dependencies) <= MaxDeps
    /\ IF rs.Id = ""
       THEN /\ oret' = <<"resource ID cannot be empty">>
            /\ UNCHANGED <<specs, graphVars>>
       ELSE IF rs.Id \in DOMAIN specs
       THEN /\ oret' = <<"duplicate resource spec id">>
            /\ UNCHANGED <<specs, graphVars>>
       ELSE IF IsErr(Validate(rs.Resource))
       THEN /\ oret' = <<"resource validation failed">>
            /\ UNCHANGED <<specs, graphVars>>
       ELSE /\ specs' = (rs.Id :> rs) @@ specs
            /\ SetG(AddNode(G, rs.Id))
            /\ oret' = Nil
    /\ UNCHANGED <<gret, options, concVars, logVars, agentVars>>

\* Add called while no Run is under way
Add(rs) == pc = "idle" /\ AddLocked(rs) /\ UNCHANGED runVars

\* the (id, dep) pairs in the order initialize meets them, for one map order
RECURSIVE Wiring(_, _)
Wiring(sp, visit) ==
    IF visit = <<>> THEN <<>>
    ELSE LET id == Head(visit)
         IN [k \in 1..Len(sp[id].Dependencies) |-> <<id, sp[id].Dependencies[k]>>]
            \o Wiring(sp, Tail(visit))

\* initialize(): an edge dep -> id for every dependency, stopping at the first
\* dependency that is not registered
RECURSIVE initializeMutant(_, _, _)
initializeMutant(g, sp, pairs) ==
    IF pairs = <<>> THEN [g |-> g, err |-> Nil]
    ELSE LET id == Head(pairs)[1]
             dep == Head(pairs)[2]
         IN IF dep \notin DOMAIN sp
            THEN [g |-> g, err |-> <<"depends on unknown resource">>]
            ELSE LET r == AddEdgeByName(g, id, <<dep>>)
                 IN IF IsErr(r.err)
                    THEN [g |-> r.g, err |-> Wrap("failed wiring dependency", r.err)]
                    ELSE initializeMutant(r.g, sp, Tail(pairs))

RECURSIVE initializeLenient(_, _, _)
initializeLenient(g, sp, pairs) ==
    IF pairs = <<>> THEN [g |-> g, err |-> Nil]
    ELSE LET id == Head(pairs)[1]
             dep == Head(pairs)[2]
         IN IF dep \notin DOMAIN sp
            THEN initializeLenient(g, sp, Tail(pairs))
            ELSE LET r == AddEdgeByName(g, dep, <<id>>)
                 IN IF IsErr(r.err)
                    THEN [g |-> r.g, err |-> Wrap("failed wiring dependency", r.err)]
                    ELSE initializeLenient(r.g, sp, Tail(pairs))

RECURSIVE initialize(_, _, _)
initialize(g, sp, pairs) ==
    IF pairs = <<>> THEN [g |-> g, err |-> Nil]
    ELSE LET id == Head(pairs)[1]
             dep == Head(pairs)[2]
         IN IF dep \notin DOMAIN sp
            THEN [g |-> g, err |-> <<"depends on unknown resource">>]
            ELSE LET r == AddEdgeByName(g, dep, <<id>>)
                 IN IF IsErr(r.err)
                    THEN [g |-> r.g, err |-> Wrap("failed wiring dependency", r.err)]
                    ELSE initialize(r.g, sp, Tail(pairs))

(***************************************************************************)
(* Orchestrator.Run, cut at the calls into resources                       *)
(***************************************************************************)
Report(ev, id) == events' = Append(events, <<ev, id>>)
ReportAll(evs) == events' = events \o evs

SetAttempt(sm, att) == [sm EXCEPT !.Attempts = (att.Id :> att) @@ @]

\* Run up to the loop: newSummary, initialize, Sort, TotalCount
RunStart(p) ==
    /\ pc = "idle"
    /\ TotalEdges + TotalDeps(specs) <= MaxEdges
    /\ \E visit \in Perms(DOMAIN specs) :
         LET init == initialize(G, specs, Wiring(specs, visit))
         IN IF IsErr(init.err)
            THEN /\ SetG(init.g)
                 /\ summary' = [newSummary EXCEPT
                                  !.Error = Wrap("failed to initialize", init.err),
                                  !.Success = FALSE]
                 /\ order' = <<>>
                 /\ pc' = "done"
            ELSE \E seed \in Seeds(init.g.nodes, init.g.edges) :
                   LET st == Sort(init.g, seed)
                   IN /\ SetG(st.g)
                      /\ IF IsErr(st.err)
                         THEN /\ summary' = [newSummary EXCEPT
                                    !.Error = Wrap("dependency resolution failed", st.err),
                                    !.Success = FALSE]
                              /\ order' = <<>>
                              /\ pc' = "done"
                         ELSE /\ summary' = [newSummary EXCEPT
                                    !.TotalCount = Len(st.order)]
                              /\ order' = st.order
                              /\ pc' = "loop"
    /\ planOnly' = p
    /\ ctxDone' = FALSE
    /\ i' = 1
    /\ failed' = FALSE
    /\ applied' = <<>>
    /\ rb' = 0
    /\ count' = 0
    /\ calls' = <<>>
    /\ events' = <<>>
    /\ oret' = Nil
    /\ UNCHANGED <<gret, options, concVars, specs>>

\* Run has returned: its caller lets go of the Summary, Run's locals are gone
RunReturned ==
    /\ pc = "done"
    /\ pc' = "idle"
    /\ planOnly' = FALSE
    /\ ctxDone' = FALSE
    /\ order' = <<>>
    /\ i' = 1
    /\ failed' = FALSE
    /\ applied' = <<>>
    /\ rb' = 0
    /\ count' = 0
    /\ summary' = newSummary
    /\ calls' = <<>>
    /\ events' = <<>>
    /\ UNCHANGED <<graphVars, gret, orchVars, concVars, agentVars>>

\* the context of the running Run is cancelled
Cancel ==
    /\ pc \in {"loop", "backup", "apply", "rollback"}
    /\ ~ctxDone
    /\ ctxDone' = TRUE
    /\ UNCHANGED <<graphVars, gret, orchVars, concVars, pc, planOnly, order, i, failed,
                   applied, rb, count, summary, logVars, agentVars>>

AtNode == pc = "loop" /\ i <= Len(order)

\* the test if failed at the top of the loop body
SkipNodeMutant == FALSE
SkipNode == failed

\* case <-ctx.Done() at the top of the loop
NodeCancelledAfterAttempt ==
    /\ AtNode
    /\ ctxDone
    /\ summary' = [SetAttempt(summary, NewAttempt(order[i], Name(specs[order[i]].Resource)))
                     EXCEPT !.Error = ErrCanceled, !.Success = FALSE]
    /\ pc' = "done"
    /\ UNCHANGED <<graphVars, gret, orchVars, concVars, planOnly, ctxDone, order, i, failed,
                   applied, rb, count, logVars, agentVars>>
NodeCancelled ==
    /\ AtNode
    /\ ctxDone
    /\ summary' = [summary EXCEPT !.Error = ErrCanceled, !.Success = FALSE]
    /\ pc' = "done"
    /\ UNCHANGED <<graphVars, gret, orchVars, concVars, planOnly, ctxDone, order, i, failed,
                   applied, rb, count, logVars, agentVars>>

\* if failed: the node is marked skipped
NodeSkippedMutant ==
    /\ AtNode
    /\ ~ctxDone
    /\ SkipNode
    /\ LET id == order[i]
           attempt == NewAttempt(id, Name(specs[id].Resource))
       IN /\ summary' = SetAttempt(summary, attempt)
          /\ Report("Skipped", id)
    /\ i' = i + 1
    /\ UNCHANGED <<graphVars, gret, orchVars, concVars, pc, planOnly, ctxDone, order, failed,
                   applied, rb, count, calls, agentVars>>
NodeSkipped ==
    /\ AtNode
    /\ ~ctxDone
    /\ SkipNode
    /\ LET id == order[i]
           attempt == [NewAttempt(id, Name(specs[id].Resource)) EXCEPT !.Skipped = TRUE]
       IN /\ summary' = [SetAttempt(summary, attempt) EXCEPT !.SkippedCount = @ + 1]
          /\ Report("Skipped", id)
    /\ i' = i + 1
    /\ UNCHANGED <<graphVars, gret, orchVars, concVars, pc, planOnly, ctxDone, order, failed,
                   applied, rb, count, calls, agentVars>>

\* what evaluate leaves in attempt.Changes
ChangesOfText(diff) == diff.text
ChangesOf(diff) ==
    IF IsErr(diff.err) THEN <<"[diff unavailable: ">> \o diff.err \o <<"]">>
    ELSE diff.text

\* the test of Run after evaluate: planOnly || !attempt.NeedsApply
SkipApplyMutant(needsApply) == ~needsApply
SkipApplyAlways(needsApply) == planOnly
SkipApplyNever(needsApply) == FALSE
SkipApply(needsApply) == planOnly \/ ~needsApply

\* evaluate(ctx, attempt, res), given what Check and Diff return, then the
\* tests of Run on its result and on SkipApply
EvaluateStep(chk, diff) ==
    /\ AtNode
    /\ ~ctxDone
    /\ ~SkipNode
    /\ LET id == order[i]
           attempt == NewAttempt(id, Name(specs[id].Resource))
       IN IF IsErr(chk.err)
          THEN /\ summary' = SetAttempt(summary, [attempt EXCEPT !.EvaluationError = chk.err])
               /\ calls' = Append(calls, <<"Check", id>>)
               /\ ReportAll(<<<<"Evaluate", id>>, <<"Fail", id>>>>)
               /\ failed' = TRUE
               /\ i' = i + 1
               /\ pc' = "loop"
          ELSE IF chk.needsApply
          THEN /\ summary' = SetAttempt(summary,
                     [attempt EXCEPT !.NeedsApply = TRUE, !.Changes = ChangesOf(diff)])
               /\ calls' = calls \o <<<<"Check", id>>, <<"Diff", id>>>>
               /\ ReportAll(<<<<"Evaluate", id>>, <<"Diff", id>>>>)
               /\ failed' = failed
               /\ IF SkipApply(TRUE)
                  THEN i' = i + 1 /\ pc' = "loop"
                  ELSE i' = i /\ pc' = "backup"
          ELSE /\ summary' = SetAttempt(summary, attempt)
               /\ calls' = Append(calls, <<"Check", id>>)
               /\ ReportAll(<<<<"Evaluate", id>>, <<"NoChanges", id>>>>)
               /\ failed' = failed
               /\ IF SkipApply(FALSE)
                  THEN i' = i + 1 /\ pc' = "loop"
                  ELSE i' = i /\ pc' = "backup"
    /\ UNCHANGED <<graphVars, gret, orchVars, concVars, planOnly, ctxDone, order, applied,
                   rb, count>>

\* whether backup(ctx, attempt, res) reaches the resource's Backup
BackupCalledAlways == TRUE
BackupCalled == options.BackupEnabled /\ Backupable(specs[order[i]].Resource)

\* backup(ctx, attempt, res), given what Backup returns, then the test of Run
BackupStep(out) ==
    /\ pc = "backup"
    /\ LET id == order[i]
           attempt == summary.Attempts[id]
       IN IF ~BackupCalled
          THEN /\ pc' = "apply"
               /\ UNCHANGED <<summary, calls, events, failed, i>>
          ELSE IF IsErr(out.err)
          THEN /\ summary' = SetAttempt(summary,
                     [attempt EXCEPT !.BackupAttempted = TRUE, !.BackupError = out.err])
               /\ calls' = Append(calls, <<"Backup", id>>)
               /\ Report("Fail", id)
               /\ failed' = TRUE
               /\ i' = i + 1
               /\ pc' = "loop"
          ELSE /\ summary' = SetAttempt(summary,
                     [attempt EXCEPT !.BackupAttempted = TRUE, !.BackedUp = out.backuped])
               /\ calls' = Append(calls, <<"Backup", id>>)
               /\ IF out.backuped THEN Report("Backuped", id) ELSE UNCHANGED events
               /\ pc' = "apply"
               /\ UNCHANGED <<failed, i>>
    /\ UNCHANGED <<graphVars, gret, orchVars, concVars, planOnly, ctxDone, order, applied,
                   rb, count>>

\* applied after apply returned err for id: appended to on success only
NextAppliedMutant(err, id) == Append(applied, id)
NextApplied(err, id) == IF IsErr(err) THEN applied ELSE Append(applied, id)

\* apply(ctx, attempt, res), given what Apply returns, then the test of Run
\* and the bookkeeping of applied and AppliedCount
ApplyStep(err) ==
    /\ pc = "apply"
    /\ LET id == order[i]
           attempt == [summary.Attempts[id] EXCEPT !.ApplyAttempted = TRUE]
       IN /\ calls' = Append(calls, <<"Apply", id>>)
          /\ IF IsErr(err)
             THEN /\ summary' = SetAttempt(summary, [attempt EXCEPT !.ApplyError = err])
                  /\ ReportAll(<<<<"Apply", id>>, <<"Fail", id>>>>)
                  /\ failed' = TRUE
             ELSE /\ summary' = [SetAttempt(summary, [attempt EXCEPT !.Applied = TRUE])
                                   EXCEPT !.AppliedCount = @ + 1]
                  /\ ReportAll(<<<<"Apply", id>>, <<"Success", id>>>>)
                  /\ UNCHANGED failed
          /\ applied' = NextApplied(err, id)
    /\ i' = i + 1
    /\ pc' = "loop"
    /\ UNCHANGED <<graphVars, gret, orchVars, concVars, planOnly, ctxDone, order, rb, count>>

\* whether Run calls rollback after the loop
RollbackWantedAlways == ~planOnly
RollbackWanted == failed /\ ~planOnly

\* the loop of Run is over: rollback is entered, or Run returns
LoopEnd ==
    /\ pc = "loop"
    /\ i > Len(order)
    /\ IF RollbackWanted
       THEN /\ pc' = "rollback"
            /\ rb' = Len(applied)
            /\ count' = 0
            /\ Report("Info", "Starting rollback...")
            /\ UNCHANGED summary
       ELSE /\ pc' = "done"
            /\ summary' = [summary EXCEPT !.Success = ~failed]
            /\ UNCHANGED <<rb, count, events>>
    /\ UNCHANGED <<graphVars, gret, orchVars, concVars, planOnly, ctxDone, order, i, failed,
                   applied, calls, agentVars>>

\* rollback returns count to Run, which sets RollbackCount and Success
RollbackReturn(ev) ==
    /\ summary' = [summary EXCEPT !.RollbackCount = count, !.Success = ~failed]
    /\ Report(ev[1], ev[2])
    /\ pc' = "done"
    /\ UNCHANGED <<graphVars, gret, orchVars, concVars, planOnly, ctxDone, order, i, failed,
                   applied, rb, count, calls, agentVars>>

\* case <-ctx.Done() in the loop of rollback
RollbackCancelled ==
    /\ pc = "rollback"
    /\ rb >= 1
    /\ ctxDone
    /\ RollbackReturn(<<"Warn", "Rollback interrupted by context cancellation">>)

\* attempt := applied[i] in the loop of rollback, which counts i down
RollbackTargetMutant == applied[Len(applied) - rb + 1]
RollbackTarget == applied[rb]

\* the loop variable of rollback after a turn in which Rollback returned err:
\* the loop goes on whatever err is
NextRbMutant(err) == IF IsErr(err) THEN 0 ELSE rb - 1
NextRb(err) == rb - 1

\* one turn of the loop of rollback, given what Rollback returns
RollbackStep(err) ==
    /\ pc = "rollback"
    /\ rb >= 1
    /\ ~ctxDone
    /\ LET id == RollbackTarget
           attempt == [summary.Attempts[id] EXCEPT !.RollbackAttempted = TRUE]
       IN /\ calls' = Append(calls, <<"Rollback", id>>)
          /\ IF IsErr(err)
             THEN /\ summary' = SetAttempt(summary, [attempt EXCEPT !.RollbackError = err])
                  /\ ReportAll(<<<<"Rollback", id>>, <<"Fail", id>>>>)
                  /\ UNCHANGED count
             ELSE /\ summary' = SetAttempt(summary, [attempt EXCEPT !.RolledBack = TRUE])
                  /\ Report("Rollback", id)
                  /\ count' = count + 1
    /\ rb' = NextRb(err)
    /\ UNCHANGED <<graphVars, gret, orchVars, concVars, pc, planOnly, ctxDone, order, i, failed,
                   applied>>

\* the loop of rollback is over
RollbackEnd ==
    /\ pc = "rollback"
    /\ rb = 0
    /\ RollbackReturn(<<"Info", "Rollback finished.">>)

(***************************************************************************)
(* Spec: the orchestrator over resources whose methods return any result   *)
(* the Resource interface allows                                           *)
(***************************************************************************)
CheckOutcomes ==
    {[needsApply |-> TRUE, err |-> Nil], [needsApply |-> FALSE, err |-> Nil],
     [needsApply |-> FALSE, err |-> <<"check failed">>]}
DiffOutcomes ==
    {[text |-> <<"diff">>, err |-> Nil], [text |-> <<>>, err |-> <<"diff failed">>]}
BackupOutcomes ==
    {[backuped |-> TRUE, err |-> Nil], [backuped |-> FALSE, err |-> Nil],
     [backuped |-> FALSE, err |-> <<"backup failed">>]}
ApplyOutcomes == {Nil, <<"apply failed">>}
RollbackOutcomes == {Nil, <<"rollback failed">>}

DepLists == SeqsUpTo(Ids, MaxDeps)

\* resources whose Validate returns an error: a mode that is not octal, an
\* empty command
InvalidResources == {NewFile("present", "/f", "rw", "", ""), NewCommand("")}

\* the specs given to Add: any dependency list; also an empty id, and
\* resources that do not validate
AddInputs ==
    {[Id |-> id, Resource |-> MockResource(TRUE), Dependencies |-> d] :
        id \in Ids, d \in DepLists}
    \cup {[Id |-> "", Resource |-> MockResource(TRUE), Dependencies |-> <<>>]}
    \cup {[Id |-> id, Resource |-> r, Dependencies |-> <<>>] :
             id \in Ids, r \in InvalidResources}

\* an empty backup directory
NoArtifacts == [dir |-> <<>>, made |-> {}, uploads |-> {}]

\* the goroutines that call the graph concurrently
Threads == {"t1", "t2"}
NoThread == "none"
NoEdges == [s \in Names |-> [t \in Names |-> 0]]
IdleThread ==
    [pc |-> "idle", source |-> "", targets |-> <<>>, adj |-> [n \in Names |-> <<>>],
     unread |-> {}, seen |-> NoEdges, sorted |-> <<>>]

SetThread(t, r) == threads' = [threads EXCEPT ![t] = r]

InitRun ==
    /\ edges = [n \in Names |-> <<>>]
    /\ cachedOrder = NilOrder
    /\ gret = NoRet
    /\ oret = Nil
    /\ pc = "idle"
    /\ planOnly = FALSE
    /\ ctxDone = FALSE
    /\ order = <<>>
    /\ i = 1
    /\ failed = FALSE
    /\ applied = <<>>
    /\ rb = 0
    /\ count = 0
    /\ summary = newSummary
    /\ calls = <<>>
    /\ events = <<>>
    /\ res = [id \in Ids |-> NewResourceState]
    /\ backups = [p \in Paths |-> NoArchive]
    /\ reqs = [c \in Clients |-> NoRequest]
    /\ threads = [t \in Threads |-> IdleThread]
    /\ mu = NoThread
    /\ returned = NoEdges
    /\ cachedFrom = [n \in Names |-> <<>>]
    /\ artifacts = NoArtifacts

\* no agent is involved: its filesystem stays empty
Init ==
    /\ options \in [BackupEnabled : BOOLEAN]
    /\ specs = [id \in {} |-> 0]
    /\ nodes = {}
    /\ InitRun
    /\ fs = [p \in Paths |-> NoFile]
    /\ fs0 = fs

MockAdd == \E rs \in AddInputs : Add(rs)

MockRun ==
    /\ \E p \in BOOLEAN : RunStart(p)
    /\ UNCHANGED agentVars

MockEvaluate ==
    /\ \E chk \in CheckOutcomes, diff \in DiffOutcomes : EvaluateStep(chk, diff)
    /\ UNCHANGED agentVars

MockBackup ==
    /\ \E out \in BackupOutcomes : BackupStep(out)
    /\ UNCHANGED agentVars

MockApply ==
    /\ \E err \in ApplyOutcomes : ApplyStep(err)
    /\ UNCHANGED agentVars

MockRollback ==
    /\ \E err \in RollbackOutcomes : RollbackStep(err)
    /\ UNCHANGED agentVars

Next ==
    \/ MockAdd
    \/ MockRun
    \/ RunReturned
    \/ Cancel
    \/ NodeCancelled
    \/ NodeSkipped
    \/ MockEvaluate
    \/ MockBackup
    \/ MockApply
    \/ LoopEnd
    \/ RollbackCancelled
    \/ MockRollback
    \/ RollbackEnd

Spec == Init /\ [][Next]_vars

\* Run is sequential code and the methods of a resource return: a Run that
\* has begun keeps taking its steps
RunSteps ==
    \/ NodeCancelled
    \/ NodeSkipped
    \/ MockEvaluate
    \/ MockBackup
    \/ MockApply
    \/ LoopEnd
    \/ RollbackCancelled
    \/ MockRollback
    \/ RollbackEnd

SpecLive == Spec /\ WF_vars(RunSteps)

(***************************************************************************)
(* SpecAgent: the orchestrator over file, directory and command resources  *)
(* whose requests the agent's handlers answer.  Each id stands for one     *)
(* target: a is the file /f, b the directory /d, c a command.              *)
(***************************************************************************)
AgentResources(id) ==
    CASE id = "a" -> {NewFile("present", "/f", "0600", "", ""),
                      NewFile("absent", "/f", "", "", "")}
      [] id = "b" -> {NewDirectory("present", "/d", "0700", "", ""),
                      NewDirectory("absent", "/d", "", "", "")}
      [] id = "c" -> {NewCommand("cmd")}

AgentDependencies(id) ==
    CASE id = "a" -> {<<>>}
      [] id = "b" -> {<<>>, <<"a">>}
      [] id = "c" -> {<<>>, <<"b">>}

\* the specs Add accepted before the first Run
AgentRegistries ==
    UNION {{sp \in [D -> UNION {[Id : {id}, Resource : AgentResources(id),
                                 Dependencies : AgentDependencies(id)] : id \in D}] :
              \A id \in D : sp[id].Id = id} : D \in SUBSET Ids}

\* what the agent's host may hold before the controller first talks to it
InitialFiles(path) ==
    {NoFile,
     [exists |-> TRUE, Mode |-> IF IsDir(path) THEN Oct(7, 5, 5) ELSE Oct(6, 4, 4),
      Uid |-> Lookup("root"), Gid |-> Lookup("root"), mtime |-> 1],
     [exists |-> TRUE, Mode |-> IF IsDir(path) THEN Oct(7, 0, 0) ELSE Oct(6, 0, 0),
      Uid |-> Lookup("app"), Gid |-> Lookup("app"), mtime |-> 1]}

InitAgent ==
    /\ options \in [BackupEnabled : BOOLEAN]
    /\ specs \in AgentRegistries
    /\ nodes = DOMAIN specs
    /\ InitRun
    /\ fs \in {f \in [Paths -> UNION {InitialFiles(p) : p \in Paths}] :
                 \A p \in Paths : f[p] \in InitialFiles(p)}
    /\ fs0 = fs

\* Check, Diff, Backup, Apply and Rollback of the resource registered as id
Check(id) ==
    LET r == specs[id].Resource
    IN IF r.kind = "command"
       THEN [st |-> res[id], needsApply |-> TRUE, err |-> Nil]
       ELSE FileCheck(r, res[id], fs, FALSE)

Diff(id, st) ==
    LET r == specs[id].Resource
    IN IF r.kind = "command" THEN CommandDiff(r) ELSE FileDiff(r, st)

Backup(id) ==
    LET r == specs[id].Resource
    IN IF r.kind = "command"
       THEN [bk |-> backups, backuped |-> FALSE, err |-> Nil]
       ELSE FileBackup(r, res[id], fs, backups, ctxDone)

Apply(id, run) ==
    LET r == specs[id].Resource
    IN IF r.kind = "command"
       THEN [st |-> res[id], fs |-> fs, err |-> CommandApply(r, ctxDone, run)]
       ELSE FileApply(r, res[id], fs, ctxDone)

Rollback(id) ==
    LET r == specs[id].Resource
    IN IF r.kind = "command"
       THEN [fs |-> fs, err |-> Nil]
       ELSE FileRollback(r, res[id], fs, backups, FALSE)

WithinMtime(fsys) == \A p \in Paths : fsys[p].mtime <= MaxMtime

AgentRun ==
    /\ \E p \in BOOLEAN : RunStart(p)
    /\ fs0' = fs
    /\ reqs' = [c \in Clients |-> NoRequest]
    /\ UNCHANGED <<res, fs, backups>>

AgentEvaluate ==
    /\ AtNode
    /\ LET id == order[i]
           chk == Check(id)
       IN /\ EvaluateStep([needsApply |-> chk.needsApply, err |-> chk.err],
                          Diff(id, chk.st))
          /\ res' = [res EXCEPT ![id] = chk.st]
    /\ UNCHANGED <<fs, backups, fs0, reqs>>

AgentBackup ==
    /\ pc = "backup"
    /\ LET out == Backup(order[i])
       IN /\ BackupStep([backuped |-> out.backuped, err |-> out.err])
          /\ backups' = IF BackupCalled THEN out.bk ELSE backups
    /\ UNCHANGED <<res, fs, fs0, reqs>>

\* the POST /command exchange of the controller, as the agent answered it
CommandExchange(r, run) ==
    [NoRequest EXCEPT !.op = "POST", !.path = r.path, !.at = "done",
                      !.code = handleCommand(r.path, ExpectedExitCodes(r), run).code]
    @@ [ExitCode |-> handleCommand(r.path, ExpectedExitCodes(r), run).ExitCode,
        Success |-> handleCommand(r.path, ExpectedExitCodes(r), run).Success]

Controller == "c1"

AgentApply ==
    /\ pc = "apply"
    /\ \E run \in CommandRuns :
         LET id == order[i]
             out == Apply(id, run)
         IN /\ WithinMtime(out.fs)
            /\ ApplyStep(out.err)
            /\ res' = [res EXCEPT ![id] = out.st]
            /\ fs' = out.fs
            /\ reqs' = IF specs[id].Resource.kind = "command" /\ ~ctxDone
                       THEN [reqs EXCEPT ![Controller] =
                                CommandExchange(specs[id].Resource, run)]
                       ELSE reqs
    /\ UNCHANGED <<backups, fs0>>

AgentRollback ==
    /\ pc = "rollback"
    /\ rb >= 1
    /\ LET out == Rollback(RollbackTarget)
       IN /\ WithinMtime(out.fs)
          /\ RollbackStep(out.err)
          /\ fs' = out.fs
    /\ UNCHANGED <<res, backups, fs0, reqs>>

NextAgent ==
    \/ AgentRun
    \/ RunReturned
    \/ Cancel
    \/ NodeCancelled
    \/ NodeSkipped
    \/ AgentEvaluate
    \/ AgentBackup
    \/ AgentApply
    \/ LoopEnd
    \/ RollbackCancelled
    \/ AgentRollback
    \/ RollbackEnd

SpecAgent == InitAgent /\ [][NextAgent]_vars

(***************************************************************************)
(* SpecCommands: SpecAgent with two commands, so that a command that was   *)
(* applied is rolled back when a later one fails.                          *)
(***************************************************************************)
CommandResources(id) ==
    CASE id = "a" -> {NewCommand("first")}
      [] id = "b" -> AgentResources("b")
      [] id = "c" -> {NewCommand("cmd")}

CommandRegistries ==
    UNION {{sp \in [D -> UNION {[Id : {id}, Resource : CommandResources(id),
                                 Dependencies : AgentDependencies(id)] : id \in D}] :
              \A id \in D : sp[id].Id = id} : D \in SUBSET Ids}

InitCommands ==
    /\ options \in [BackupEnabled : BOOLEAN]
    /\ specs \in CommandRegistries
    /\ nodes = DOMAIN specs
    /\ InitRun
    /\ fs \in {f \in [Paths -> UNION {InitialFiles(p) : p \in Paths}] :
                 f["/f"] = NoFile /\ f["/d"] \in InitialFiles("/d")}
    /\ fs0 = fs

SpecCommands == InitCommands /\ [][NextAgent]_vars

(***************************************************************************)
(* SpecApi: the agent serving the PUT and DELETE requests of two clients.  *)
(* The server runs each handler in a goroutine of its own and the handlers *)
(* take no lock: a handler is cut where it has read the path (os.Stat and  *)
(* the tests on If-Match) and has not yet written it.                      *)
(***************************************************************************)
\* the body of a PUT decodes: the mode is octal, owner and group are known
WellFormed(q) ==
    /\ q.props.Mode = "" \/ decodeFileMode(q.props.Mode) >= 0
    /\ q.props.Owner = "" \/ Lookup(q.props.Owner) >= 0
    /\ q.props.Group = "" \/ Lookup(q.props.Group) >= 0

\* the bodies of the PUT requests; one has a mode that does not parse
PutBodies ==
    {[NoProps EXCEPT !.Mode = "0600"], [NoProps EXCEPT !.Owner = "app"],
     [NoProps EXCEPT !.Mode = "rw"]}

\* the If-Match header of a request: none, the tag a GET returns now, a stale one
IfMatchHeaders(path) == {NoETag, StaleTag, handleGetFileProperties(fs, path).etag}

\* the paths the clients' requests name
ApiPaths == {"/f"}

InFlight == {c \in Clients : reqs[c].at \in {"received", "checked"}}

\* the server receives a request of client c
ApiSend(c, op, path, props, ifMatch) ==
    /\ reqs[c].at = "idle"
    /\ reqs' = [d \in Clients |->
                  IF d = c
                  THEN [NoRequest EXCEPT !.op = op, !.path = path, !.props = props,
                                         !.ifMatch = ifMatch, !.at = "received",
                                         !.overlap = InFlight]
                  ELSE IF d \in InFlight
                  THEN [reqs[d] EXCEPT !.overlap = @ \cup {c}]
                  ELSE reqs[d]]
    /\ UNCHANGED fs

\* handlePutFile / handleDeleteFile up to the call of putFile / os.Remove:
\* the body is decoded, the path is read, If-Match is tested
ApiStat(c) ==
    LET q == reqs[c]
        put == handlePutFile(fs, q.path, q.props, q.ifMatch)
        del == handleDeleteFile(fs, q.path, q.ifMatch)
        code == IF q.op = "PUT" THEN put.code ELSE del.code
        passes == IF q.op = "PUT" THEN code \in {"201", "204"}
                  ELSE fs[q.path].exists /\ code = "204"
    IN /\ q.at = "received"
       /\ reqs' = [reqs EXCEPT ![c] =
                     IF passes THEN [q EXCEPT !.at = "checked", !.seen = fs[q.path]]
                     ELSE [q EXCEPT !.at = "done", !.seen = fs[q.path], !.code = code]]
       /\ UNCHANGED fs

\* putFile / os.Remove on the path as it is now, and the response
ApiWrite(c) ==
    LET q == reqs[c]
        mode == IF q.props.Mode = "" THEN -1 ELSE decodeFileMode(q.props.Mode)
        uid == IF q.props.Owner = "" THEN -1 ELSE Lookup(q.props.Owner)
        gid == IF q.props.Group = "" THEN -1 ELSE Lookup(q.props.Group)
        put == putFile(fs, q.path, mode, uid, gid)
        gone == [fs EXCEPT ![q.path] = [NoFile EXCEPT !.mtime = fs[q.path].mtime]]
    IN /\ q.at = "checked"
       /\ IF q.op = "PUT"
          THEN /\ fs' = put.fs
               /\ reqs' = [reqs EXCEPT ![c] =
                             [q EXCEPT !.at = "done", !.wrote = TRUE,
                                       !.code = IF put.created THEN "201" ELSE "204"]]
          ELSE /\ fs' = gone
               /\ reqs' = [reqs EXCEPT ![c] =
                             [q EXCEPT !.at = "done", !.wrote = fs[q.path].exists,
                                       !.code = "204"]]
       /\ WithinMtime(fs')

\* the client has its response
ApiReceive(c) ==
    /\ reqs[c].at = "done"
    /\ reqs' = [reqs EXCEPT ![c] = NoRequest]
    /\ UNCHANGED fs

ApiUnchanged == UNCHANGED <<graphVars, gret, orchVars, concVars, runVars, logVars, res, backups, fs0>>

Send ==
    /\ \E c \in Clients, op \in {"PUT", "DELETE"}, path \in ApiPaths :
         \E props \in IF op = "PUT" THEN PutBodies ELSE {NoProps},
            ifMatch \in IfMatchHeaders(path) :
            ApiSend(c, op, path, props, ifMatch)
    /\ ApiUnchanged

Stat ==
    /\ \E c \in Clients : ApiStat(c)
    /\ ApiUnchanged

Write ==
    /\ \E c \in Clients : ApiWrite(c)
    /\ ApiUnchanged

Receive ==
    /\ \E c \in Clients : ApiReceive(c)
    /\ ApiUnchanged

InitApi ==
    /\ options = [BackupEnabled |-> FALSE]
    /\ specs = [id \in {} |-> 0]
    /\ nodes = {}
    /\ InitRun
    /\ fs \in {f \in [Paths -> UNION {InitialFiles(p) : p \in Paths}] :
                 \A p \in Paths : f[p] \in IF p \in ApiPaths THEN InitialFiles(p) ELSE {NoFile}}
    /\ fs0 = fs

NextApi ==
    \/ Send
    \/ Stat
    \/ Write
    \/ Receive

SpecApi == InitApi /\ [][NextApi]_vars

(***************************************************************************)
(* SpecDrift: SpecAgent with another party that, once, changes the path of *)
(* the resource the Run is at after its Check and before its Apply.  The   *)
(* other party goes through the agent as client c2, with the tag a GET     *)
(* gives it; its request is handled before the Run's next one.             *)
(***************************************************************************)
Other == "c2"

\* what the other party asks for: create or change the path, or delete it
DriftRequests == {<<"PUT", b>> : b \in {q \in PutBodies : WellFormed([props |-> q])}}
                 \cup {<<"DELETE", NoProps>>}

Drift ==
    /\ pc \in {"backup", "apply"}
    /\ reqs[Other].at = "idle"
    /\ specs[order[i]].Resource.kind \in {"file", "directory"}
    /\ \E rq \in DriftRequests :
         LET path == specs[order[i]].Resource.path
             tag == handleGetFileProperties(fs, path).etag
             code == IF rq[1] = "PUT" THEN handlePutFile(fs, path, rq[2], tag).code
                     ELSE handleDeleteFile(fs, path, tag).code
             after == IF rq[1] = "PUT" THEN handlePutFile(fs, path, rq[2], tag).fs
                      ELSE handleDeleteFile(fs, path, tag).fs
         IN /\ after # fs
            /\ WithinMtime(after)
            /\ fs' = after
            /\ reqs' = [reqs EXCEPT ![Other] =
                          [NoRequest EXCEPT !.op = rq[1], !.path = path, !.props = rq[2],
                                            !.ifMatch = tag, !.at = "done",
                                            !.seen = fs[path], !.code = code,
                                            !.wrote = TRUE]]
    /\ UNCHANGED <<graphVars, gret, orchVars, concVars, runVars, logVars, res, backups, fs0>>

\* the registries of SpecDrift: the file a, with or without the directory b
InitDrift ==
    /\ InitAgent
    /\ "a" \in DOMAIN specs
    /\ "c" \notin DOMAIN specs

\* Run begins; the other party has long had its response
DriftRun ==
    /\ \E p \in BOOLEAN : RunStart(p)
    /\ fs0' = fs
    /\ reqs' = [reqs EXCEPT ![Other] = NoRequest]
    /\ UNCHANGED <<res, fs, backups>>

NextDrift ==
    \/ DriftRun
    \/ RunReturned
    \/ Cancel
    \/ NodeCancelled
    \/ NodeSkipped
    \/ AgentEvaluate
    \/ Drift
    \/ AgentBackup
    \/ AgentApply
    \/ LoopEnd
    \/ RollbackCancelled
    \/ AgentRollback
    \/ RollbackEnd

SpecDrift == InitDrift /\ [][NextDrift]_vars

(***************************************************************************)
(* SpecGraph: the graph API called directly                                *)
(***************************************************************************)
TargetLists == SeqsUpTo(Names, MaxTargets)

GraphAddNode ==
    /\ \E n \in Ids :
         /\ SetG(AddNode(G, n))
         /\ gret' = [NoRet EXCEPT !.op = "AddNode"]
    /\ UNCHANGED <<orchVars, concVars, runVars, logVars, agentVars>>

GraphAddEdge ==
    /\ \E source \in Names, targets \in TargetLists :
         /\ TotalEdges + Len(targets) <= MaxEdges
         /\ LET r == AddEdge(G, source, targets)
            IN /\ SetG(r.g)
               /\ gret' = [NoRet EXCEPT !.op = "AddEdge", !.err = r.err]
    /\ UNCHANGED <<orchVars, concVars, runVars, logVars, agentVars>>

GraphAddEdgeByName ==
    /\ \E sourceName \in Names, targetNames \in TargetLists :
         /\ TotalEdges + Len(targetNames) <= MaxEdges
         /\ LET r == AddEdgeByName(G, sourceName, targetNames)
            IN /\ SetG(r.g)
               /\ gret' = [NoRet EXCEPT !.op = "AddEdgeByName", !.err = r.err]
    /\ UNCHANGED <<orchVars, concVars, runVars, logVars, agentVars>>

GraphSort ==
    /\ \E seed \in Seeds(nodes, edges) :
         LET r == Sort(G, seed)
         IN /\ SetG(r.g)
            /\ gret' = [op |-> "Sort", err |-> r.err, order |-> r.order,
                        fromCache |-> r.fromCache]
    /\ UNCHANGED <<orchVars, concVars, runVars, logVars, agentVars>>

NextGraph ==
    \/ GraphAddNode
    \/ GraphAddEdge
    \/ GraphAddEdgeByName
    \/ GraphSort

SpecGraph == Init /\ [][NextGraph]_vars

(***************************************************************************)
(* SpecAddRun: Add called by one goroutine while another is in Run.  Add   *)
(* holds o.mu for all it does and initialize holds it for reading, so      *)
(* each is one step; Sort and the loop of Run hold no lock of the          *)
(* orchestrator: sort() reads g.nodes in its first loop and again in its   *)
(* cycle check, and the loop reads o.specs at every node.  The Runs are    *)
(* plans and are not cancelled.                                            *)
(***************************************************************************)
Runner == "t1"

\* Add at any time, of specs that pass its tests of the id and the resource
ConcurrentAdd ==
    /\ \E rs \in {in \in AddInputs : in.Id # "" /\ ~IsErr(Validate(in.Resource))} :
         AddLocked(rs)
    /\ UNCHANGED <<runVars, agentVars>>

\* Run up to the call of Sort: newSummary and initialize
AddRunStart ==
    /\ pc = "idle"
    /\ TotalEdges + TotalDeps(specs) <= MaxEdges
    /\ \E visit \in Perms(DOMAIN specs) :
         LET init == initialize(G, specs, Wiring(specs, visit))
         IN /\ SetG(init.g)
            /\ IF IsErr(init.err)
               THEN /\ summary' = [newSummary EXCEPT
                                     !.Error = Wrap("failed to initialize", init.err),
                                     !.Success = FALSE]
                    /\ pc' = "done"
               ELSE /\ summary' = newSummary
                    /\ pc' = "sort"
    /\ planOnly' = TRUE
    /\ ctxDone' = FALSE
    /\ order' = <<>>
    /\ i' = 1
    /\ failed' = FALSE
    /\ applied' = <<>>
    /\ rb' = 0
    /\ count' = 0
    /\ calls' = <<>>
    /\ events' = <<>>
    /\ oret' = Nil
    /\ UNCHANGED <<gret, options, specs, concVars, agentVars>>

\* Run takes the order Sort returned
AddRunSorted(sorted) ==
    /\ summary' = [summary EXCEPT !.TotalCount = Len(sorted)]
    /\ order' = sorted
    /\ pc' = "loop"

\* Sort: the cached order, or sort() up to its cycle check
AddRunSort ==
    /\ pc = "sort"
    /\ IF ~cachedOrder.isNil
       THEN /\ AddRunSorted(cachedOrder.order)
            /\ UNCHANGED threads
       ELSE /\ \E seed \in Seeds(nodes, edges) :
                 SetThread(Runner, [IdleThread EXCEPT
                    !.sorted = kahn(nodes, edges, seed, inDegreeOf(nodes, edges), <<>>)])
            /\ pc' = "check"
            /\ UNCHANGED <<summary, order>>
    /\ UNCHANGED <<graphVars, gret, orchVars, planOnly, ctxDone, i, failed, applied, rb,
                   count, logVars, agentVars, mu, returned, cachedFrom, artifacts>>

\* the cycle check of sort(), on g.nodes as it is now; Sort stores the order
AddRunSortCheck ==
    /\ pc = "check"
    /\ IF CycleFound(threads[Runner].sorted, nodes)
       THEN /\ summary' = [summary EXCEPT
                             !.Error = Wrap("dependency resolution failed",
                                            ErrCircularDependency),
                             !.Success = FALSE]
            /\ pc' = "done"
            /\ UNCHANGED <<order, cachedOrder>>
       ELSE /\ AddRunSorted(threads[Runner].sorted)
            /\ cachedOrder' = [isNil |-> FALSE, order |-> threads[Runner].sorted]
    /\ SetThread(Runner, IdleThread)
    /\ UNCHANGED <<nodes, edges, gret, orchVars, planOnly, ctxDone, i, failed, applied, rb,
                   count, logVars, agentVars, mu, returned, cachedFrom, artifacts>>

NextAddRun ==
    \/ ConcurrentAdd
    \/ AddRunStart
    \/ AddRunSort
    \/ AddRunSortCheck
    \/ NodeSkipped
    \/ MockEvaluate
    \/ LoopEnd
    \/ RunReturned

SpecAddRun == Init /\ [][NextAddRun]_vars

(***************************************************************************)
(* SpecArtifacts: the names of the backup artifacts.  A path is the        *)
(* sequence of its pieces, the separator "/" being a piece of its own;     *)
(* the registry holds files and directories to be deleted, and each        *)
(* resource writes and reads the artifact of the name it derives           *)
(***************************************************************************)
TrimPrefix(str, prefix) ==
    IF Len(str) >= 1 /\ str[1] = prefix THEN Tail(str) ELSE str

ReplaceAll(str, old, new) == [k \in 1..Len(str) |-> IF str[k] = old THEN new ELSE str[k]]

\* File.backupPath / Directory.backupPath
backupPath(r) ==
    <<"BackupDir", "/">> \o ReplaceAll(TrimPrefix(r.path, "/"), "/", "-")
    \o (IF r.kind = "directory" THEN <<"-", "dir", ".tar.gz">> ELSE <<".tar.gz">>)

ArtifactPaths ==
    {<<"/", "x">>, <<"/", "y">>, <<"/", "x", "/", "y">>, <<"/", "x", "-", "y">>,
     <<"/", "x", "-", "dir">>}

ArtifactResources ==
    {NewFile("absent", path, "", "", "") : path \in ArtifactPaths}
    \cup {NewDirectory("absent", path, "", "", "") : path \in ArtifactPaths}

\* the specs Add accepted: a and b, other than each other
ArtifactRegistries ==
    {sp \in [{"a", "b"} -> [Id : {"a", "b"}, Resource : ArtifactResources,
                            Dependencies : {<<>>}]] :
        /\ \A id \in {"a", "b"} : sp[id].Id = id
        /\ sp["a"].Resource # sp["b"].Resource}

InitArtifacts ==
    /\ options = [BackupEnabled |-> TRUE]
    /\ specs \in ArtifactRegistries
    /\ nodes = DOMAIN specs
    /\ InitRun
    /\ fs = [p \in Paths |-> NoFile]
    /\ fs0 = fs

\* backup() up to os.Create: the artifact of the name is made or truncated
\* and then holds the archive of the resource
ArtifactBackup ==
    /\ \E id \in DOMAIN specs :
         /\ id \notin artifacts.made
         /\ artifacts' = [artifacts EXCEPT
                            !.dir = (backupPath(specs[id].Resource) :> id) @@ @,
                            !.made = @ \cup {id}]
    /\ UNCHANGED <<graphVars, gret, orchVars, runVars, logVars, agentVars, threads, mu,
                   returned, cachedFrom>>

\* restoreFromBackup(): the artifact of the name is opened and uploaded
ArtifactRestore ==
    /\ \E id \in DOMAIN specs :
         /\ backupPath(specs[id].Resource) \in DOMAIN artifacts.dir
         /\ artifacts' = [artifacts EXCEPT
                            !.uploads = @ \cup
                               {<<id, artifacts.dir[backupPath(specs[id].Resource)]>>}]
    /\ UNCHANGED <<graphVars, gret, orchVars, runVars, logVars, agentVars, threads, mu,
                   returned, cachedFrom>>

NextArtifacts ==
    \/ ArtifactBackup
    \/ ArtifactRestore

SpecArtifacts == InitArtifacts /\ [][NextArtifacts]_vars

(***************************************************************************)
(* SpecLeftover: SpecAgent with a backup directory that earlier            *)
(* invocations of the planner have written to: artifacts are never removed *)
(* after a restore, and BackupEnabled is an option of each invocation      *)
(***************************************************************************)
InitLeftover ==
    /\ InitAgent
    /\ {"a", "c"} \subseteq DOMAIN specs
    /\ "b" \notin DOMAIN specs

\* File.backup of an earlier invocation, on what the path held then
EarlierBackup ==
    /\ pc = "idle"
    /\ \E p \in Paths : \E f \in InitialFiles(p) :
         /\ f.exists
         /\ ~backups[p].present
         /\ backups' = [backups EXCEPT ![p] =
                          handleDownload([fs EXCEPT ![p] = f], p, IsDir(p)).archive]
    /\ UNCHANGED <<graphVars, gret, orchVars, concVars, runVars, logVars, res, fs, fs0,
                   reqs>>

NextLeftover ==
    \/ EarlierBackup
    \/ AgentRun
    \/ RunReturned
    \/ Cancel
    \/ NodeCancelled
    \/ NodeSkipped
    \/ AgentEvaluate
    \/ AgentBackup
    \/ AgentApply
    \/ LoopEnd
    \/ RollbackCancelled
    \/ AgentRollback
    \/ RollbackEnd

SpecLeftover == InitLeftover /\ [][NextLeftover]_vars

(***************************************************************************)
(* SpecRace: goroutines calling Sort, AddEdge and AddEdgeByName on one     *)
(* graph at the same time.  A call is cut where another goroutine can run  *)
(* in between: AddEdge reads Node.edges and writes it with the targets     *)
(* appended, holding no lock, and then calls Invalidate, which takes mu;   *)
(* Sort looks at the cache under the read lock, lets go of it, takes the   *)
(* write lock, and sort() reads the edges of one node after the other in   *)
(* map order.  What the calls return is not recorded.                      *)
(***************************************************************************)
InitRace ==
    /\ options = [BackupEnabled |-> FALSE]
    /\ specs = [id \in {} |-> 0]
    /\ nodes = {"a", "b"}
    /\ InitRun
    /\ fs = [p \in Paths |-> NoFile]
    /\ fs0 = fs

\* the edges added by one call, counted per source and target
EdgesOf(source, targets) ==
    [s \in Names |-> [t \in Names |-> IF s = source THEN Count(t, targets) ELSE 0]]

\* the edges given to the calls so far, those under way included
Given ==
    SumOver(Names, [s \in Names |-> SumOver(Names, returned[s])])
    + SumOver(Threads, [u \in Threads |-> Len(threads[u].targets)])

\* AddEdge up to the append of Node.AddEdge: the lookup of the source, and
\* n.edges is read
RaceAddEdge(t) ==
    /\ threads[t].pc = "idle"
    /\ \E source \in Names, targets \in TargetLists :
         /\ Given + Len(targets) <= MaxEdges
         /\ LET r == AddEdge(G, source, targets)
            IN IF IsErr(r.err)
               THEN UNCHANGED threads
               ELSE SetThread(t, [IdleThread EXCEPT !.pc = "append",
                                     !.source = source, !.targets = targets,
                                     !.adj[source] = edges[source]])
    /\ UNCHANGED <<graphVars, gret, orchVars, runVars, logVars, agentVars, artifacts, mu,
                   returned, cachedFrom>>

\* AddEdgeByName up to the append of Node.AddEdge: the lookups, and n.edges
\* is read
RaceAddEdgeByName(t) ==
    /\ threads[t].pc = "idle"
    /\ \E sourceName \in Names, targetNames \in TargetLists :
         /\ Given + Len(targetNames) <= MaxEdges
         /\ LET r == AddEdgeByName(G, sourceName, targetNames)
            IN IF IsErr(r.err)
               THEN UNCHANGED threads
               ELSE SetThread(t, [IdleThread EXCEPT !.pc = "append",
                                     !.source = sourceName, !.targets = targetNames,
                                     !.adj[sourceName] = edges[sourceName]])
    /\ UNCHANGED <<graphVars, gret, orchVars, runVars, logVars, agentVars, artifacts, mu,
                   returned, cachedFrom>>

\* n.edges = append(n.edges, targets...): the slice that was read, with the
\* targets, is written to n.edges; no lock is held
RaceAppend(t) ==
    /\ threads[t].pc = "append"
    /\ LET n == threads[t].source
           read == [G EXCEPT !.edges[n] = threads[t].adj[n]]
       IN edges' = [edges EXCEPT ![n] = AddEdge(read, n, threads[t].targets).g.edges[n]]
    /\ SetThread(t, [threads[t] EXCEPT !.pc = "invalidate", !.adj = IdleThread.adj])
    /\ UNCHANGED <<nodes, cachedOrder, gret, orchVars, runVars, logVars, agentVars, artifacts, mu,
                   returned, cachedFrom>>

\* Invalidate() as called by AddEdge and AddEdgeByName, which then return nil
RaceInvalidate(t) ==
    /\ threads[t].pc = "invalidate"
    /\ mu = NoThread
    /\ cachedOrder' = Invalidate(G).cachedOrder
    /\ returned' = [s \in Names |-> [n \in Names |->
                       returned[s][n] + EdgesOf(threads[t].source, threads[t].targets)[s][n]]]
    /\ cachedFrom' = IF cachedOrder'.isNil THEN IdleThread.adj ELSE cachedFrom
    /\ SetThread(t, IdleThread)
    /\ UNCHANGED <<nodes, edges, gret, orchVars, runVars, logVars, agentVars, artifacts, mu>>

\* Sort, under the read lock: the cached order is returned if there is one
RaceSortCached(t) ==
    /\ threads[t].pc = "idle"
    /\ mu = NoThread
    /\ IF ~cachedOrder.isNil
       THEN UNCHANGED threads
       ELSE SetThread(t, [IdleThread EXCEPT !.pc = "lock", !.seen = returned])
    /\ UNCHANGED <<graphVars, gret, orchVars, runVars, logVars, agentVars, artifacts, mu,
                   returned, cachedFrom>>

\* Sort takes the write lock and sort() begins
RaceSortLock(t) ==
    /\ threads[t].pc = "lock"
    /\ mu = NoThread
    /\ mu' = t
    /\ SetThread(t, [threads[t] EXCEPT !.pc = "sorting", !.unread = nodes])
    /\ UNCHANGED <<graphVars, gret, orchVars, runVars, logVars, agentVars, artifacts, returned,
                   cachedFrom>>

\* the first loop of sort() copies the edges of one more node into adj
RaceSortRead(t) ==
    /\ threads[t].pc = "sorting"
    /\ \E n \in threads[t].unread :
         SetThread(t, [threads[t] EXCEPT !.adj[n] = edges[n], !.unread = @ \ {n}])
    /\ UNCHANGED <<graphVars, gret, orchVars, runVars, logVars, agentVars, artifacts, mu,
                   returned, cachedFrom>>

\* the rest of sort() works on adj; Sort stores the order and unlocks
RaceSortStore(t) ==
    /\ threads[t].pc = "sorting"
    /\ threads[t].unread = {}
    /\ \E seed \in Seeds(nodes, threads[t].adj) :
         LET r == sort(nodes, threads[t].adj, seed)
         IN IF IsErr(r.err)
            THEN UNCHANGED <<cachedOrder, cachedFrom>>
            ELSE /\ cachedOrder' = [isNil |-> FALSE, order |-> r.order]
                 /\ cachedFrom' = threads[t].adj
    /\ mu' = NoThread
    /\ SetThread(t, IdleThread)
    /\ UNCHANGED <<nodes, edges, gret, orchVars, runVars, logVars, agentVars, artifacts, returned>>

NextRace ==
    \/ \E t \in Threads : RaceAddEdge(t)
    \/ \E t \in Threads : RaceAddEdgeByName(t)
    \/ \E t \in Threads : RaceAppend(t)
    \/ \E t \in Threads : RaceInvalidate(t)
    \/ \E t \in Threads : RaceSortCached(t)
    \/ \E t \in Threads : RaceSortLock(t)
    \/ \E t \in Threads : RaceSortRead(t)
    \/ \E t \in Threads : RaceSortStore(t)

SpecRace == InitRace /\ [][NextRace]_vars

(***************************************************************************)
(* Properties                                                              *)
(***************************************************************************)
Attempts == summary.Attempts

Attempted(id) == id \in DOMAIN Attempts

Called(op, id) == \E k \in 1..Len(calls) : calls[k] = <<op, id>>

CalledBefore(op, id, k) == \E j \in 1..(k - 1) : calls[j] = <<op, id>>

\* the ids a method was invoked on, in invocation order
IdsOf(cs) == [k \in 1..Len(cs) |-> cs[k][2]]
CallsOf(op) == IdsOf(SelectSeq(calls, LAMBDA c : c[1] = op))

Reverse(s) == [k \in 1..Len(s) |-> s[Len(s) + 1 - k]]

IsPrefix(s, t) == Len(s) <= Len(t) /\ SubSeq(t, 1, Len(s)) = s

\* errors.Is(e, target)
Is(e, target) == \E k \in 1..Len(e) : SubSeq(e, k, Len(e)) = target

FailedAttempt(a) ==
    IsErr(a.EvaluationError) \/ IsErr(a.BackupError) \/ IsErr(a.ApplyError)

\* the Run saw ctx.Done(): at a node boundary, or inside rollback
CancelObserved ==
    \/ summary.Error = ErrCanceled
    \/ \E k \in 1..Len(events) : events[k][1] = "Warn"

Pos(s, x) == CHOOSE k \in 1..Len(s) : s[k] = x

IsTopologicalOrder(sorted, ns, es) ==
    /\ Len(sorted) = Cardinality(ns)
    /\ Range(sorted) = ns
    /\ \A a \in ns : \A k \in 1..Len(es[a]) :
         /\ es[a][k] \in Range(sorted)
         /\ Pos(sorted, a) < Pos(sorted, es[a][k])

\* the dependency relation among registered specs, and its transitive closure
DepRel(sp) ==
    {<<id, d>> : id \in DOMAIN sp, d \in DOMAIN sp} \cap
    UNION {{<<id, d>> : d \in Range(sp[id].Dependencies)} : id \in DOMAIN sp}

Compose(R, S) == {<<p[1][1], p[2][2]>> : p \in {q \in R \X S : q[1][2] = q[2][1]}}

RECURSIVE Closure(_, _)
Closure(R, n) == IF n = 0 THEN R ELSE LET T == Closure(R, n - 1) IN T \cup Compose(T, R)

HasCycle(sp) == \E id \in DOMAIN sp : <<id, id>> \in Closure(DepRel(sp), Cardinality(Ids))

AllDepsRegistered(sp) == \A id \in DOMAIN sp : Range(sp[id].Dependencies) \subseteq DOMAIN sp

\* C1: whenever sort() returns without error, the returned list holds every
\* node of the graph exactly once and, for every edge a -> b, a strictly
\* before b.
C1_SortIsTopological ==
    (gret.op = "Sort" /\ gret.err = Nil /\ ~gret.fromCache)
        => IsTopologicalOrder(gret.order, nodes, edges)

\* C2: with planOnly false, Apply is invoked on a resource only after every
\* dependency it declares was evaluated without error in the same Run and
\* either was applied successfully before or reported needsApply = false.
C2_ApplyAfterDependencies ==
    \A k \in 1..Len(calls) :
        calls[k][1] = "Apply" =>
            \A d \in Range(specs[calls[k][2]].Dependencies) :
                /\ Attempted(d)
                /\ CalledBefore("Check", d, k)
                /\ Attempts[d].EvaluationError = Nil
                /\ \/ ~Attempts[d].NeedsApply
                   \/ Attempts[d].Applied /\ CalledBefore("Apply", d, k)

C2_Witness ==
    \E k \in 1..Len(calls) :
        /\ calls[k][1] = "Apply"
        /\ \E d \in Range(specs[calls[k][2]].Dependencies) : Attempts[d].Applied
        /\ \E d \in Range(specs[calls[k][2]].Dependencies) : ~Attempts[d].NeedsApply

\* what C3 says of a Run over a cyclic registry: it has returned without
\* success, its error wraps ErrCircularDependency, it made no Attempt, called
\* no resource method and reported no event
CycleOutcome ==
    /\ pc = "done"
    /\ ~summary.Success
    /\ Is(summary.Error, ErrCircularDependency)
    /\ Attempts = NoAttempts
    /\ calls = <<>>
    /\ events = <<>>

\* C3 as stated: whenever the registered dependencies contain a cycle, Run
\* ends in CycleOutcome.
C3_AsStated == (pc # "idle" /\ HasCycle(specs)) => CycleOutcome

\* C3: whenever the registered dependencies contain a cycle (a
\* self-dependency included) and every dependency names a registered spec,
\* Run returns Success = false with an error wrapping ErrCircularDependency,
\* no Attempt, no resource method called and no reporter event.
C3_CycleRejected ==
    (pc # "idle" /\ HasCycle(specs) /\ AllDepsRegistered(specs)) => CycleOutcome

C3_Witness ==
    /\ pc = "done"
    /\ AllDepsRegistered(specs)
    /\ \E a, b \in DOMAIN specs :
         /\ a # b
         /\ b \in Range(specs[a].Dependencies)
         /\ a \in Range(specs[b].Dependencies)

\* the ids whose Apply succeeded, in the order of the Apply calls
AppliedSequence ==
    IdsOf(SelectSeq(calls, LAMBDA c : c[1] = "Apply" /\ Attempts[c[2]].Applied))

C6_BackupFailureNoRollback ==
    (\E id \in DOMAIN Attempts : IsErr(Attempts[id].BackupError))
        => /\ CallsOf("Rollback") = <<>>
           /\ summary.RollbackCount = 0

\* C7: after the first resource that fails (evaluation, backup or apply),
\* every later resource of the sort order is marked Skipped and has no
\* Check, Diff, Backup or Apply invoked on it; when Run returns without
\* having stopped on a cancellation every later resource has such an Attempt
\* and SkippedCount is their number.
C7_CascadeSkip ==
    \A f \in 1..Len(order) :
        (Attempted(order[f]) /\ FailedAttempt(Attempts[order[f]])) =>
            /\ \A k \in (f + 1)..Len(order) :
                 /\ Attempted(order[k]) => Attempts[order[k]].Skipped
                 /\ \A op \in {"Check", "Diff", "Backup", "Apply"} : ~Called(op, order[k])
            /\ (pc = "done" /\ summary.Error # ErrCanceled) =>
                 /\ \A k \in (f + 1)..Len(order) : Attempted(order[k])
                 /\ summary.SkippedCount = Len(order) - f

C7_Witness ==
    /\ pc = "done"
    /\ Len(order) = Cardinality(Ids)
    /\ Attempted(order[1])
    /\ IsErr(Attempts[order[1]].ApplyError)
    /\ summary.SkippedCount = Len(order) - 1

\* the outcome classes of C8
NoOp(a) ==
    /\ Called("Check", a.Id)
    /\ ~a.Skipped
    /\ ~FailedAttempt(a)
    /\ ~a.ApplyAttempted

OutcomeSum ==
    Cardinality({id \in DOMAIN Attempts : Attempts[id].Applied})
    + Cardinality({id \in DOMAIN Attempts : Attempts[id].Skipped})
    + Cardinality({id \in DOMAIN Attempts : IsErr(Attempts[id].EvaluationError)})
    + Cardinality({id \in DOMAIN Attempts : IsErr(Attempts[id].ApplyError)})
    + Cardinality({id \in DOMAIN Attempts : IsErr(Attempts[id].BackupError)})
    + Cardinality({id \in DOMAIN Attempts : NoOp(Attempts[id])})

\* C8 as stated: for every Run that has returned, cancelled or not, the
\* outcome classes add up to TotalCount.
C8_AsStated == pc = "done" => OutcomeSum = summary.TotalCount

\* C8: for every Run that has returned without stopping on a cancellation
\* at a node boundary, Applied + Skipped + FailedAtEval + FailedAtApply +
\* FailedAtBackup + NoOp = TotalCount, NoOp counting the attempts that were
\* evaluated without error and not taken to Apply.
C8_OutcomesAddUp ==
    (pc = "done" /\ summary.Error # ErrCanceled) => OutcomeSum = summary.TotalCount

C8_Witness ==
    /\ pc = "done"
    /\ summary.Error = Nil
    /\ summary.TotalCount = Cardinality(Ids)
    /\ \E id \in DOMAIN Attempts : Attempts[id].Applied
    /\ \E id \in DOMAIN Attempts : IsErr(Attempts[id].BackupError)
    /\ \E id \in DOMAIN Attempts : Attempts[id].Skipped

\* C9: every Attempt has at most one of Applied, EvaluationError set and
\* Skipped; RollbackAttempted, RolledBack and RollbackError occur only on
\* Attempts that are Applied.
C9_AttemptExclusive ==
    \A id \in DOMAIN Attempts :
        LET a == Attempts[id]
        IN /\ ~(a.Applied /\ IsErr(a.EvaluationError))
           /\ ~(a.Applied /\ a.Skipped)
           /\ ~(a.Skipped /\ IsErr(a.EvaluationError))
           /\ a.RollbackAttempted => a.Applied
           /\ a.RolledBack => a.Applied /\ a.RollbackAttempted
           /\ IsErr(a.RollbackError) => a.Applied /\ a.RollbackAttempted

C9_Witness ==
    /\ \E id \in DOMAIN Attempts : Attempts[id].Applied /\ IsErr(Attempts[id].RollbackError)
    /\ \E id \in DOMAIN Attempts : IsErr(Attempts[id].EvaluationError)
    /\ \E id \in DOMAIN Attempts : Attempts[id].Skipped

\* what C5 compares of a path: whether it exists and, if so, its mode, owner
\* and group
Observable(fi) ==
    IF fi.exists THEN <<TRUE, fi.Mode, fi.Uid, fi.Gid>> ELSE <<FALSE, 0, 0, 0>>

\* C5: when a Run with planOnly false has returned after an Apply failure,
\* without cancellation, every path whose file or directory resource was
\* applied earlier in the Run exists or not, with the mode, owner and group,
\* as when the Run began.
C5_AtomicRollback ==
    (/\ pc = "done"
     /\ ~planOnly
     /\ ~ctxDone
     /\ \E id \in DOMAIN Attempts : IsErr(Attempts[id].ApplyError))
        => \A id \in DOMAIN Attempts :
             (Attempts[id].Applied /\ specs[id].Resource.kind \in {"file", "directory"})
                => Observable(fs[specs[id].Resource.path])
                     = Observable(fs0[specs[id].Resource.path])

\* every resource of the Run reported needsApply = true without error
AllNeedApply ==
    /\ summary.Error = Nil
    /\ Range(order) \subseteq DOMAIN Attempts
    /\ \A id \in DOMAIN Attempts :
         Attempts[id].NeedsApply /\ Attempts[id].EvaluationError = Nil

\* C10: a Run with planOnly true never calls Apply, Backup or Rollback:
\* AppliedCount and RollbackCount are 0 and no Attempt has BackupAttempted,
\* ApplyAttempted or RollbackAttempted; and when it has returned with every
\* resource reporting needsApply = true without error, every Attempt has
\* non-empty Changes and Success is true.
C10_PlanOnly ==
    (pc # "idle" /\ planOnly) =>
        /\ \A op \in {"Apply", "Backup", "Rollback"} : CallsOf(op) = <<>>
        /\ summary.AppliedCount = 0
        /\ summary.RollbackCount = 0
        /\ \A id \in DOMAIN Attempts :
             /\ ~Attempts[id].BackupAttempted
             /\ ~Attempts[id].ApplyAttempted
             /\ ~Attempts[id].RollbackAttempted
        /\ (pc = "done" /\ AllNeedApply) =>
             /\ \A id \in DOMAIN Attempts : Attempts[id].Changes # <<>>
             /\ summary.Success

C10_Witness ==
    /\ pc = "done"
    /\ planOnly
    /\ AllNeedApply
    /\ summary.Success
    /\ \E id \in DOMAIN Attempts : specs[id].Resource.kind = "file"
    /\ \E id \in DOMAIN Attempts : specs[id].Resource.kind = "command"

\* the resources of the sort order that Run had not reached when it stopped
Unreached == {order[k] : k \in i..Len(order)}

\* C11: whenever a Run has observed cancellation, at a node boundary or
\* before a rollback step, it has returned with Success = false and with
\* Error set to the cancellation reason, and it made no lifecycle call past
\* the point of observation: none on the resources not yet reached, and no
\* Rollback beyond those made before.
C11_CancellationFatal ==
    CancelObserved =>
        /\ pc = "done"
        /\ ~summary.Success
        /\ summary.Error = ErrCanceled
        /\ summary.Error = ErrCanceled =>
             \A id \in Unreached, op \in {"Check", "Diff", "Backup", "Apply", "Rollback"} :
                ~Called(op, id)
        /\ Len(CallsOf("Rollback")) <= Len(applied)

\* C12: a Rollback error on one resource does not stop rollback: when a Run
\* that rolled back has returned without having seen a cancellation, every
\* applied resource has RollbackAttempted and had Rollback called on it, each
\* is either RolledBack or carries a RollbackError, and RollbackCount is the
\* number of those rolled back.
C12_RollbackContinues ==
    (pc = "done" /\ RollbackWanted /\ ~CancelObserved) =>
        /\ \A id \in DOMAIN Attempts :
             Attempts[id].Applied =>
                /\ Attempts[id].RollbackAttempted
                /\ Called("Rollback", id)
                /\ Attempts[id].RolledBack # IsErr(Attempts[id].RollbackError)
        /\ summary.RollbackCount
             = Cardinality({id \in DOMAIN Attempts : Attempts[id].RolledBack})

C12_Witness ==
    /\ pc = "done"
    /\ ~CancelObserved
    /\ Len(applied) = 2
    /\ IsErr(Attempts[applied[2]].RollbackError)
    /\ Attempts[applied[1]].RolledBack
    /\ summary.RollbackCount = 1

\* the Attempt of id records a Check that returned needsApply = false
NoChangeNeeded(id) ==
    /\ Attempted(id)
    /\ Called("Check", id)
    /\ Attempts[id].EvaluationError = Nil
    /\ ~Attempts[id].NeedsApply

\* what Check stored of the path equals every desired field that is set
ReportedAsDesired(id) ==
    LET r == specs[id].Resource
        cur == res[id].currentProperties
    IN /\ r.kind \in {"file", "directory"}
       /\ r.desiredState = "present"
       /\ res[id].currentState = "present"
       /\ ~cur.isNil
       /\ r.Mode # "" => r.Mode = cur.Mode
       /\ r.Owner # "" => r.Owner = cur.Owner
       /\ r.Group # "" => r.Group = cur.Group

\* C13 as stated: a resource whose Check returned needsApply = false in the
\* Run has neither Backup nor Apply invoked on it, its Attempt has empty
\* Changes and Applied = false, and its lastOperation is none; and a file or
\* directory reported as desired has needsApply = false.
C13_AsStated ==
    \A id \in DOMAIN specs :
        /\ NoChangeNeeded(id) =>
             /\ ~Called("Backup", id)
             /\ ~Called("Apply", id)
             /\ Attempts[id].Changes = <<>>
             /\ ~Attempts[id].Applied
             /\ res[id].lastOperation = "none"
        /\ (Attempted(id) /\ Called("Check", id)
            /\ Attempts[id].EvaluationError = Nil /\ ReportedAsDesired(id))
             => ~Attempts[id].NeedsApply

\* C13: from the step in which Check of a resource returns needsApply = false
\* to the end of the Run, neither Backup nor Apply is invoked on it, its
\* Attempt has empty Changes and Applied = false, and no step changes the
\* resource's lastOperation; and a file or directory whose reported mode,
\* owner and group equal all desired fields has needsApply = false.
C13_NoOpUntouched ==
    [][\A id \in DOMAIN specs :
         /\ NoChangeNeeded(id)' =>
              /\ ~Called("Backup", id)'
              /\ ~Called("Apply", id)'
              /\ Attempts'[id].Changes = <<>>
              /\ ~Attempts'[id].Applied
              /\ res'[id].lastOperation = res[id].lastOperation
         /\ (Attempted(id)' /\ Called("Check", id)'
             /\ Attempts'[id].EvaluationError = Nil /\ ReportedAsDesired(id)')
              => ~Attempts'[id].NeedsApply]_vars

C13_Witness ==
    /\ pc = "done"
    /\ ~planOnly
    /\ \E id \in DOMAIN specs :
         /\ NoChangeNeeded(id)
         /\ ReportedAsDesired(id)
         /\ specs[id].Resource.kind = "file"
         /\ res[id].lastOperation = "none"
    /\ \E id \in DOMAIN Attempts : Attempts[id].Applied

\* the step invokes Check on the resource registered as id
CheckedNow(id) ==
    \E k \in (Len(calls) + 1)..Len(calls') : calls'[k] = <<"Check", id>>

\* C14: a step in which Check is invoked leaves the agent's filesystem and
\* the controller's backups as they were, and a second Check of the same
\* resource right after it, with no Apply and no change on the agent in
\* between, succeeds as the first did and returns the same needsApply.
C14_CheckSideEffectFree ==
    [][\A id \in DOMAIN specs :
         CheckedNow(id) =>
            /\ fs' = fs
            /\ backups' = backups
            /\ Attempts'[id].EvaluationError = Nil =>
                 /\ Check(id)'.err = Nil
                 /\ Check(id)'.needsApply = Attempts'[id].NeedsApply
                 /\ Check(id)'.st = res'[id]]_vars

C14_Witness ==
    /\ \E id \in DOMAIN specs :
         /\ NoChangeNeeded(id)
         /\ specs[id].Resource.kind = "file"
         /\ ~Check(id).needsApply
    /\ \E id \in DOMAIN specs :
         /\ Attempted(id)
         /\ specs[id].Resource.kind = "directory"
         /\ Attempts[id].NeedsApply
         /\ ~Called("Apply", id)
         /\ Check(id).needsApply

\* C15: after a successful create or update by Apply of a file or directory
\* resource, and before anything else touches the path, the entity tag the
\* resource stored from the PUT response is non-empty, is the path's entity
\* tag after the write, and is the tag the next Check obtains.
C15_ETagRoundTrip ==
    \A id \in DOMAIN specs :
        (/\ Attempted(id)
         /\ Attempts[id].Applied
         /\ specs[id].Resource.kind \in {"file", "directory"}
         /\ res[id].lastOperation \in {"create", "update"}
         /\ ~Called("Rollback", id))
            => /\ res[id].etag # NoETag
               /\ res[id].etag = generateFileETag(fs[specs[id].Resource.path])
               /\ res[id].etag = Check(id).st.etag

\* the step in which the agent answers the request of client c
Answered(c) == reqs[c].at # "done" /\ reqs'[c].at = "done"

Rejections == {"409", "412", "428"}

\* C16 as stated: a PUT or DELETE whose If-Match differs from the path's
\* entity tag is answered 409, a PUT on an existing path without If-Match 428,
\* a PUT with If-Match on an absent path 412, a DELETE without If-Match 428,
\* a DELETE of an absent path 204, and no rejection changes the filesystem.
C16_AsStated ==
    [][\A c \in Clients :
         Answered(c) =>
            LET q == reqs'[c]
            IN /\ (q.ifMatch # NoETag /\ q.seen.exists
                   /\ q.ifMatch # generateFileETag(q.seen)) => q.code = "409"
               /\ (q.op = "PUT" /\ q.ifMatch = NoETag /\ q.seen.exists) => q.code = "428"
               /\ (q.op = "PUT" /\ q.ifMatch # NoETag /\ ~q.seen.exists) => q.code = "412"
               /\ (q.op = "DELETE" /\ q.ifMatch = NoETag) => q.code = "428"
               /\ (q.op = "DELETE" /\ ~q.seen.exists) => q.code = "204"
               /\ q.code \in Rejections => fs' = fs]_vars

\* C16: the same for a PUT whose body decodes and with 428 for a DELETE
\* without If-Match of an existing path only: a DELETE of an absent path is
\* answered 204 with or without If-Match.
C16_ConditionalWrites ==
    [][\A c \in Clients :
         Answered(c) =>
            LET q == reqs'[c]
                put == q.op = "PUT" /\ WellFormed(q)
                del == q.op = "DELETE"
            IN /\ ((put \/ del) /\ q.ifMatch # NoETag /\ q.seen.exists
                   /\ q.ifMatch # generateFileETag(q.seen)) => q.code = "409"
               /\ (put /\ q.ifMatch = NoETag /\ q.seen.exists) => q.code = "428"
               /\ (put /\ q.ifMatch # NoETag /\ ~q.seen.exists) => q.code = "412"
               /\ (del /\ q.ifMatch = NoETag /\ q.seen.exists) => q.code = "428"
               /\ (del /\ ~q.seen.exists) => q.code = "204"
               /\ q.code \in Rejections \cup {"400"} => fs' = fs
               /\ (del /\ ~q.seen.exists) => fs' = fs]_vars

C16_Witness ==
    /\ reqs["c1"].at = "done"
    /\ reqs["c1"].code = "409"
    /\ reqs["c2"].at = "done"
    /\ reqs["c2"].code = "412"
    /\ ~fs["/f"].exists

\* the request changes the path it read: it deletes it, or sets a mode,
\* owner or group the path did not have
Changing(q) ==
    \/ q.op = "DELETE"
    \/ /\ q.op = "PUT"
       /\ WellFormed(q)
       /\ \/ q.props.Mode # "" /\ decodeFileMode(q.props.Mode) # q.seen.Mode
          \/ q.props.Owner # "" /\ Lookup(q.props.Owner) # q.seen.Uid
          \/ q.props.Group # "" /\ Lookup(q.props.Group) # q.seen.Gid

Accepted(q) == q.code \in {"201", "204"}

\* C18: of two requests that the agent handled concurrently, that each
\* change or delete the same existing path and that carry the same If-Match
\* tag, at most one is accepted, and one that is not accepted is answered 409.
C18_AtMostOneAccepted ==
    \A c1, c2 \in Clients :
        (/\ c1 # c2
         /\ reqs[c1].at = "done" /\ reqs[c2].at = "done"
         /\ c2 \in reqs[c1].overlap /\ c1 \in reqs[c2].overlap
         /\ reqs[c1].path = reqs[c2].path
         /\ reqs[c1].seen.exists /\ reqs[c2].seen.exists
         /\ reqs[c1].ifMatch # NoETag /\ reqs[c1].ifMatch = reqs[c2].ifMatch
         /\ Changing(reqs[c1]) /\ Changing(reqs[c2]))
            => /\ ~(Accepted(reqs[c1]) /\ Accepted(reqs[c2]))
               /\ ~Accepted(reqs[c1]) => reqs[c1].code = "409"

\* in this Run the other party changed the path of id between Check and Apply
DriftedOn(id) ==
    /\ pc # "idle"
    /\ Attempted(id)
    /\ specs[id].Resource.kind \in {"file", "directory"}
    /\ reqs[Other].at = "done"
    /\ reqs[Other].path = specs[id].Resource.path

\* the state of its path the request q left when the agent had served it
LeftBy(q) ==
    LET f == [fs EXCEPT ![q.path] = q.seen]
    IN IF q.op = "PUT" THEN handlePutFile(f, q.path, q.props, q.ifMatch).fs[q.path]
       ELSE handleDeleteFile(f, q.path, q.ifMatch).fs[q.path]

\* Apply of id failed, with an error of the agent unless the Run was
\* cancelled, the path is as the other party left it and the Run has failed
ApplyRefused(id) ==
    /\ IsErr(Attempts[id].ApplyError)
    /\ ~Attempts[id].Applied
    /\ \/ Is(Attempts[id].ApplyError, ErrCanceled)
       \/ \E code \in Rejections : Attempts[id].ApplyError = APIError(code)
    /\ fs[specs[id].Resource.path] = LeftBy(reqs[Other])
    /\ failed

\* C17 as stated: whenever another party changed the path of a file or
\* directory resource after its Check and Apply was then invoked, Apply
\* failed with an agent error, the path is as the other party left it, and
\* the Run has failed with ApplyError recorded.
C17_AsStated ==
    \A id \in DOMAIN specs :
        (DriftedOn(id) /\ Called("Apply", id)) => ApplyRefused(id)

\* the other party deleted a path that the resource wants absent
DeletedForIt(id) ==
    specs[id].Resource.desiredState = "absent" /\ reqs[Other].op = "DELETE"

\* C17: the same, except when the resource wants the path absent and the
\* other party deleted it: then Apply succeeds unless the Run was cancelled,
\* and the path stays absent unless a Rollback of the resource is invoked
\* later in the Run.
C17_DriftNotOverwritten ==
    \A id \in DOMAIN specs :
        (DriftedOn(id) /\ Called("Apply", id)) =>
            IF DeletedForIt(id)
            THEN /\ Attempts[id].Applied \/ Is(Attempts[id].ApplyError, ErrCanceled)
                 /\ ~Called("Rollback", id) => ~fs[specs[id].Resource.path].exists
            ELSE ApplyRefused(id)

C17_Witness ==
    /\ pc = "done"
    /\ DriftedOn("a")
    /\ Attempts["a"].ApplyError = APIError("409")
    /\ Called("Rollback", "b")
    /\ fs["/f"] = LeftBy(reqs[Other])

\* C19: a call of Add that returns an error leaves the registry and the graph
\* as they were; one that returns nil adds exactly the given spec under a new
\* id and one node of that name; so the node names are the registered ids at
\* all times, no id is empty and every registered resource validates.
C19_AddRejects ==
    [][/\ (pc = "idle" /\ pc' = "idle") =>
            IF IsErr(oret')
            THEN specs' = specs /\ nodes' = nodes /\ edges' = edges
            ELSE \E id \in Ids \ DOMAIN specs :
                    /\ DOMAIN specs' = DOMAIN specs \cup {id}
                    /\ \A k \in DOMAIN specs : specs'[k] = specs[k]
                    /\ nodes' = nodes \cup {id}
       /\ nodes' = DOMAIN specs'
       /\ "" \notin DOMAIN specs'
       /\ \A id \in DOMAIN specs' :
            /\ specs'[id].Id = id
            /\ specs'[id].Resource \notin InvalidResources]_vars

C19_Witness ==
    /\ pc = "idle"
    /\ oret = <<"resource validation failed">>
    /\ Cardinality(DOMAIN specs) = 2
    /\ nodes = DOMAIN specs

\* C20: whenever some registered spec names a dependency that is not a
\* registered id, Run has returned with Success = false and an error, with
\* no Attempt and with no Check, Diff, Backup, Apply or Rollback invoked,
\* whatever the order in which initialize visits the specs.
C20_MissingDependency ==
    (pc # "idle" /\ ~AllDepsRegistered(specs)) =>
        /\ pc = "done"
        /\ ~summary.Success
        /\ IsErr(summary.Error)
        /\ Attempts = NoAttempts
        /\ calls = <<>>

C20_Witness ==
    /\ pc = "done"
    /\ summary.Error = <<"failed to initialize", "depends on unknown resource">>
    /\ \E id \in DOMAIN specs : \E d \in Range(specs[id].Dependencies) : d \notin DOMAIN specs
    /\ \E id \in DOMAIN specs : \E d \in Range(specs[id].Dependencies) : d \in DOMAIN specs

\* the orders sort() can compute for the graph as it is now
FreshOrders == {sort(nodes, edges, seed).order : seed \in
                   {sd \in Seeds(nodes, edges) : sort(nodes, edges, sd).err = Nil}}

\* C21: every mutation of the graph (AddNode, AddEdge, AddEdgeByName)
\* invalidates the cached order: a Sort() that succeeds returns an order
\* computed for the graph as it is now, never one computed before a mutation,
\* so it holds every current node.
C21_MutationInvalidates ==
    (gret.op = "Sort" /\ gret.err = Nil)
        => /\ gret.order \in FreshOrders
           /\ nodes \subseteq Range(gret.order)

\* C22: Sort() is cached: a Sort() that directly follows a successful
\* Sort() returns the same order, served from the cache, whatever order the
\* map iteration would have produced this time; a Sort() that fails caches
\* nothing.
C22_SortCached ==
    [][/\ (gret.op = "Sort" /\ gret.err = Nil /\ gret'.op = "Sort")
            => /\ gret'.err = Nil
               /\ gret'.order = gret.order
               /\ gret'.fromCache
               /\ cachedOrder' = cachedOrder
       /\ (gret'.op = "Sort" /\ gret'.err # Nil /\ gret' # gret)
            => /\ cachedOrder'.isNil
               /\ gret'.order = <<>>]_vars

\* a second Sort() answered from the cache where sort() had a choice of orders
C22_Witness ==
    /\ gret.op = "Sort"
    /\ gret.fromCache
    /\ gret.order = cachedOrder.order
    /\ Len(gret.order) >= 2
    /\ Cardinality(FreshOrders) >= 2

CommandStep(op, id) ==
    /\ id \in DOMAIN specs
    /\ specs[id].Resource.kind = "command"
    /\ \/ calls' = Append(calls, <<op, id>>)
       \/ op = "Check" /\ calls' = calls \o <<<<"Check", id>>, <<"Diff", id>>>>

\* the agent answered the command of id with an exit code that is expected
ExitExpected(id) ==
    /\ reqs[Controller].op = "POST"
    /\ reqs[Controller].path = specs[id].Resource.path
    /\ reqs[Controller].code = "200"
    /\ reqs[Controller].ExitCode \in ExpectedExitCodes(specs[id].Resource)

\* the error is a CommandExecutionError: it carries an exit code
IsExecutionError(e) == Len(e) >= 2 /\ e[1] = "command failed with exit code"

\* what the claim says of a command beside the errors of Apply
CommandHasNoState(id) ==
    /\ CommandStep("Check", id) =>
         /\ Attempts'[id].NeedsApply
         /\ Attempts'[id].EvaluationError = Nil
         /\ UNCHANGED agentVars
    /\ CommandStep("Backup", id) =>
         /\ ~Attempts'[id].BackedUp
         /\ Attempts'[id].BackupError = Nil
         /\ UNCHANGED agentVars
    /\ CommandStep("Rollback", id) =>
         /\ Attempts[id].Applied
         /\ Attempts'[id].RolledBack
         /\ Attempts'[id].RollbackError = Nil
         /\ count' = count + 1
         /\ UNCHANGED agentVars
    /\ CommandStep("Apply", id) =>
         /\ Attempts'[id].Applied <=> ExitExpected(id)'
         /\ UNCHANGED <<res, fs, backups, fs0>>

\* C24 as stated: a command's Check returns (true, nil), its Backup
\* (false, nil), its Rollback nil without a request to the agent, so that a
\* rolled back command is counted; its Apply succeeds exactly when the agent
\* reports an expected exit code and otherwise returns an execution error
\* carrying the exit code.
C24_AsStated ==
    [][\A id \in Ids :
         /\ CommandHasNoState(id)
         /\ (CommandStep("Apply", id) /\ ~Attempts'[id].Applied)
              => IsExecutionError(Attempts'[id].ApplyError)]_vars

\* C24: a command's Check returns (true, nil), its Backup (false, nil), its
\* Rollback nil without a request to the agent, so that a rolled back command
\* is counted; its Apply succeeds exactly when the agent reports an expected
\* exit code; when the agent reports another exit code, Apply returns an
\* execution error carrying that code and the expected ones; when the agent
\* answers with an error status, Apply returns an API error of that status,
\* and when the request is not answered, the error of the client.
C24_CommandResource ==
    [][\A id \in Ids :
         /\ CommandHasNoState(id)
         /\ (CommandStep("Apply", id) /\ ~Attempts'[id].Applied) =>
              LET q == reqs'[Controller]
                  e == Attempts'[id].ApplyError
              IN IF q.path # specs[id].Resource.path THEN ctxDone /\ Is(e, ErrCanceled)
                 ELSE IF q.code = "200"
                 THEN /\ IsExecutionError(e)
                      /\ e[2] = ToString(q.ExitCode)
                      /\ e[4] = ToString(ExpectedExitCodes(specs[id].Resource))
                 ELSE e = APIError(q.code)]_vars

\* a Run has rolled back a command that the agent had run, after a later
\* command ended with an exit code that was not expected
C24_Witness ==
    /\ pc = "done"
    /\ \E id, later \in DOMAIN specs :
         /\ specs[id].Resource.kind = "command"
         /\ Attempted(id) /\ Attempted(later)
         /\ Attempts[id].NeedsApply
         /\ Attempts[id].Applied
         /\ ~Attempts[id].BackedUp
         /\ Attempts[id].RolledBack
         /\ IsExecutionError(Attempts[later].ApplyError)
         /\ reqs[Controller].ExitCode = 1
         /\ summary.RollbackCount >= 1

\* a Run has returned that was no plan, saw no cancellation and in which no
\* Check, Backup or Apply returned an error
CleanRun ==
    /\ pc = "done"
    /\ ~planOnly
    /\ ~ctxDone
    /\ \A id \in DOMAIN Attempts : ~FailedAttempt(Attempts[id])

\* the resources whose Check returned needsApply = true
Needing == {id \in DOMAIN Attempts : Attempts[id].NeedsApply}

CleanOutcome ==
    /\ summary.Success
    /\ \A id \in DOMAIN specs :
         Count(<<"Apply", id>>, calls) = IF id \in Needing THEN 1 ELSE 0
    /\ summary.AppliedCount = Cardinality(Needing)
    /\ summary.SkippedCount = 0
    /\ summary.RollbackCount = 0

\* C25 as stated: a Run with planOnly = false, no cancellation and no Check,
\* Backup or Apply error terminates with Success = true, Apply invoked exactly
\* once on every resource whose Check returned needsApply = true, AppliedCount
\* the number of those resources and SkippedCount = RollbackCount = 0.
C25_AsStated == CleanRun => CleanOutcome

\* C25: a Run with planOnly = false, no cancellation and no Check, Backup or
\* Apply error, over specs whose dependencies are all registered and free of
\* cycles, returns Success = true, with Apply invoked exactly once on every
\* resource whose Check returned needsApply = true, AppliedCount the number
\* of those resources and SkippedCount = RollbackCount = 0; and every Run
\* that has begun returns.
C25_CleanRunSucceeds ==
    /\ []((CleanRun /\ AllDepsRegistered(specs) /\ ~HasCycle(specs)) => CleanOutcome)
    /\ (pc \in {"loop", "backup", "apply", "rollback"}) ~> (pc = "done")

\* a clean Run over three specs has returned: two resources needed the change
\* and were applied, the third needed none
C25_Witness ==
    /\ CleanRun
    /\ summary.Error = Nil
    /\ summary.TotalCount = 3
    /\ Cardinality(Needing) = 2
    /\ summary.AppliedCount = 2
    /\ summary.Success

\* the file and directory resources of the registry
FileIds == {id \in DOMAIN specs : specs[id].Resource.kind \in {"file", "directory"}}

\* C26: for every file or directory resource, in every state (freshly
\* constructed, after a successful or failed Check, after Apply, after
\* Rollback), currentProperties is nil if and only if currentState is absent,
\* and whenever currentProperties is not nil the stored etag is not empty.
C26_ObservedStateInvariant ==
    \A id \in FileIds :
        /\ res[id].currentProperties.isNil <=> res[id].currentState = "absent"
        /\ ~res[id].currentProperties.isNil => res[id].etag # NoETag

\* the resource registered as id holds what a Check of it observes now
Observed(id) == res[id].currentState # "" /\ Check(id).st = res[id]

\* C27: for a file or directory resource that was checked, Diff returns no
\* error, the empty text when the desired state and every set desired
\* property equal the observed ones, and a non-empty text exactly when Check
\* reports needsApply = true.
C27_DiffEmptyIffNoDrift ==
    \A id \in FileIds :
        Observed(id) =>
            /\ Diff(id, res[id]).err = Nil
            /\ Diff(id, res[id]).text # <<>> <=> Check(id).needsApply

\* the desired properties of r that are set and differ from what the agent
\* reports for the path
Drifted(r, fi) ==
    {f \in {"Mode", "Owner", "Group"} :
        /\ r[f] # ""
        /\ r[f] # (CASE f = "Mode" -> encodeFileMode(fi.Mode)
                     [] f = "Owner" -> LookupId(fi.Uid)
                     [] f = "Group" -> LookupId(fi.Gid))}

\* C28: Check of a file or directory resource, in whatever state the resource
\* and the agent are: when the agent answers not found, the observed state
\* becomes absent with nil properties and an empty etag, and needsApply is
\* desired = present; when it answers with the properties, they and the tag
\* are stored and needsApply is desired = absent or some set desired field
\* differs from the observed one, unset fields never counting; when the
\* request fails otherwise, Check returns an error and the observed state
\* stays as it was.
C28_CheckComputesDrift ==
    \A id \in FileIds : \A failing \in BOOLEAN :
        LET r == specs[id].Resource
            fi == fs[r.path]
            c == FileCheck(r, res[id], fs, failing)
        IN /\ failing => IsErr(c.err) /\ c.st = res[id] /\ ~c.needsApply
           /\ (~failing /\ ~fi.exists) =>
                /\ c.err = Nil
                /\ c.st.currentState = "absent"
                /\ c.st.currentProperties.isNil
                /\ c.st.etag = NoETag
                /\ c.st.lastOperation = res[id].lastOperation
                /\ c.needsApply <=> r.desiredState = "present"
           /\ (~failing /\ fi.exists) =>
                /\ c.err = Nil
                /\ c.st.currentState = "present"
                /\ ~c.st.currentProperties.isNil
                /\ c.st.etag = generateFileETag(fi)
                /\ c.st.lastOperation = res[id].lastOperation
                /\ c.needsApply <=> (r.desiredState = "absent" \/ Drifted(r, fi) # {})

\* a Check has just found a present path whose mode is the desired one and
\* whose owner is app, while the resource leaves the owner unset: no change
\* is needed
C28_Witness ==
    /\ pc = "loop"
    /\ \E id \in FileIds :
         /\ calls # <<>> /\ calls[Len(calls)] = <<"Check", id>>
         /\ specs[id].Resource.desiredState = "present"
         /\ specs[id].Resource.Owner = ""
         /\ res[id].currentState = "present"
         /\ res[id].currentProperties.Owner = "app"
         /\ res[id].currentProperties.Mode = specs[id].Resource.Mode
         /\ ~Attempts[id].NeedsApply

\* the step is the call of Apply on the file or directory registered as id
FileApplyStep(id) == id \in FileIds /\ calls' = Append(calls, <<"Apply", id>>)

\* C29: Apply of a file or directory resource follows the decision table.
\* Desired absent, observed absent: the agent is not called, lastOperation is
\* none, Apply succeeds.  Desired absent, observed present: the agent gets
\* DELETE with If-Match the observed tag, and lastOperation is delete when it
\* answers 204.  Desired present: the agent gets PUT of the desired
\* properties, with If-Match the observed tag only when the resource was
\* observed present, and lastOperation is create on 201 and update on 204.
\* Every Apply that fails leaves lastOperation none.
C29_ApplyDecisionTable ==
    [][\A id \in Ids : FileApplyStep(id) =>
         LET r == specs[id].Resource
             st == res[id]
             del == handleDeleteFile(fs, r.path, st.etag)
             put == handlePutFile(fs, r.path,
                        [Mode |-> r.Mode, Owner |-> r.Owner, Group |-> r.Group],
                        IF st.currentState = "present" THEN st.etag ELSE NoETag)
             after == res'[id].lastOperation
             ok == Attempts'[id].Applied
         IN /\ ~ok => after = "none" /\ IsErr(Attempts'[id].ApplyError)
            /\ (r.desiredState = "absent" /\ st.currentState = "absent") =>
                 ok /\ after = "none" /\ fs' = fs
            /\ (ctxDone /\ ~(r.desiredState = "absent" /\ st.currentState = "absent")) =>
                 ~ok /\ fs' = fs
            /\ (~ctxDone /\ r.desiredState = "absent" /\ st.currentState = "present") =>
                 /\ fs' = del.fs
                 /\ ok <=> del.code = "204"
                 /\ ok => after = "delete"
            /\ (~ctxDone /\ r.desiredState = "present") =>
                 /\ fs' = put.fs
                 /\ ok <=> put.code \in {"201", "204"}
                 /\ put.code = "201" => after = "create"
                 /\ put.code = "204" => after = "update"]_vars

\* an Apply has just updated a path that was observed present: the agent
\* accepted the PUT with the observed tag and the path now has the desired mode
C29_Witness ==
    /\ calls # <<>>
    /\ \E id \in FileIds :
         /\ calls[Len(calls)] = <<"Apply", id>>
         /\ specs[id].Resource.desiredState = "present"
         /\ res[id].currentState = "present"
         /\ res[id].lastOperation = "update"
         /\ Attempts[id].Applied
         /\ fs[specs[id].Resource.path].Mode = decodeFileMode(specs[id].Resource.Mode)
         /\ fs[specs[id].Resource.path] # fs0[specs[id].Resource.path]

\* the step is the call of Rollback on the file or directory registered as id
FileRollbackStep(id) == id \in FileIds /\ calls' = Append(calls, <<"Rollback", id>>)

\* C30: Rollback of a file or directory resource acts on lastOperation only.
\* none: the agent is not called.  create: the agent gets DELETE with the tag
\* Apply stored and, no one else having touched the path, accepts it: the
\* path is gone and Rollback succeeds.  update: the agent gets PUT of the
\* properties the Check before Apply observed, with If-Match the stored tag,
\* which is set.  delete: the backup archive is uploaded to the path.
C30_RollbackByLastOperation ==
    [][\A id \in Ids : FileRollbackStep(id) =>
         LET r == specs[id].Resource
             st == res[id]
             ok == Attempts'[id].RolledBack
             put == handlePutFile(fs, r.path,
                        [Mode |-> st.currentProperties.Mode,
                         Owner |-> st.currentProperties.Owner,
                         Group |-> st.currentProperties.Group], st.etag)
             up == handleUpload(fs, r.path, r.kind = "directory", backups[r.path])
         IN /\ st.lastOperation = "none" => ok /\ fs' = fs
            /\ st.lastOperation = "create" =>
                 /\ st.etag # NoETag
                 /\ ok
                 /\ ~fs'[r.path].exists
            /\ st.lastOperation = "update" =>
                 /\ st.etag # NoETag
                 /\ fs' = put.fs
                 /\ ok <=> put.code \in {"201", "204"}
            /\ (st.lastOperation = "delete" /\ backups[r.path].present) =>
                 /\ fs' = up.fs
                 /\ ok <=> up.code \in {"201", "204"}]_vars

\* the step is the call of op on the resource registered as id
Step(op, id) == id \in DOMAIN specs /\ calls' = Append(calls, <<op, id>>)

\* C31: Backup is called on a resource only when backups are enabled, the
\* Run is no plan, the resource is Backupable and its Check returned
\* needsApply = true, and before the Apply of that resource, which is not
\* called without it when those conditions hold; Backup of a file or
\* directory makes an artifact only when desired is absent and the resource
\* was observed present, otherwise it returns (false, nil) and leaves the
\* backup directory alone, and when the download fails no artifact is left
\* for the path; BackedUp implies BackupAttempted.
C31_BackupOnlyWhenNeeded ==
    [][/\ \A id \in DOMAIN Attempts' :
            Attempts'[id].BackedUp => Attempts'[id].BackupAttempted
       /\ \A id \in Ids :
            /\ Step("Backup", id) =>
                 /\ options.BackupEnabled
                 /\ ~planOnly
                 /\ Backupable(specs[id].Resource)
                 /\ Attempts[id].NeedsApply
                 /\ ~Called("Apply", id)
                 /\ Attempts'[id].BackupAttempted
            /\ (Step("Apply", id) /\ options.BackupEnabled
                  /\ Backupable(specs[id].Resource)) =>
                 /\ Called("Backup", id)
                 /\ Attempts[id].BackupError = Nil
            /\ (Step("Backup", id) /\ id \in FileIds) =>
                 LET r == specs[id].Resource
                     wanted == r.desiredState = "absent" /\ res[id].currentState = "present"
                 IN /\ Attempts'[id].BackedUp =>
                         wanted /\ backups'[r.path].present
                    /\ ~wanted =>
                         /\ ~Attempts'[id].BackedUp
                         /\ Attempts'[id].BackupError = Nil
                         /\ backups' = backups
                    /\ IsErr(Attempts'[id].BackupError) =>
                         wanted /\ ~backups'[r.path].present]_vars

\* Backup has made the artifact of a path that is to be deleted, and Apply
\* has deleted the path
C31_Witness ==
    \E id \in FileIds :
        /\ Attempted(id)
        /\ Attempts[id].BackedUp
        /\ Attempts[id].Applied
        /\ CalledBefore("Backup", id, Pos(calls, <<"Apply", id>>))
        /\ res[id].lastOperation = "delete"
        /\ backups[specs[id].Resource.path].present
        /\ ~fs[specs[id].Resource.path].exists

\* what evaluate stores in Changes when Diff fails with the error e
DiffUnavailable(e) == <<"[diff unavailable: ">> \o e \o <<"]">>

\* the step is evaluate calling Check and then Diff on the resource id
DiffStep(id) ==
    id \in DOMAIN specs /\ calls' = calls \o <<<<"Check", id>>, <<"Diff", id>>>>

\* C32: a Diff error does not fail the resource: after a Check that returned
\* needsApply = true, Changes holds either the text Diff returned or the
\* text of its error, EvaluationError stays nil, the flag that skips the
\* later nodes keeps its value, and with planOnly = false the Run goes on to
\* the Backup and Apply of the resource.
C32_DiffErrorNotFatal ==
    [][\A id \in Ids : DiffStep(id) =>
          /\ Attempts'[id].NeedsApply
          /\ Attempts'[id].Changes
                \in {d.text : d \in {o \in DiffOutcomes : ~IsErr(o.err)}}
                    \cup {DiffUnavailable(d.err) : d \in {o \in DiffOutcomes : IsErr(o.err)}}
          /\ Attempts'[id].EvaluationError = Nil
          /\ failed' = failed
          /\ summary'.Error = summary.Error
          /\ \A k \in (Len(events) + 1)..Len(events') : events'[k] # <<"Fail", id>>
          /\ IF planOnly THEN pc' = "loop" /\ i' = i + 1
                         ELSE pc' = "backup" /\ i' = i /\ order'[i'] = id]_vars

\* Diff failed on a resource, whose Backup and Apply were then called and
\* succeeded
C32_Witness ==
    \E id \in Ids :
        /\ Attempted(id)
        /\ \E d \in DiffOutcomes :
              IsErr(d.err) /\ Attempts[id].Changes = DiffUnavailable(d.err)
        /\ Attempts[id].NeedsApply
        /\ Attempts[id].EvaluationError = Nil
        /\ Attempts[id].BackupAttempted
        /\ Attempts[id].Applied
        /\ CalledBefore("Diff", id, Pos(calls, <<"Backup", id>>))
        /\ CalledBefore("Backup", id, Pos(calls, <<"Apply", id>>))

\* the operations of a resource in the order of its states
Phases == <<"Check", "Diff", "Backup", "Apply", "Rollback">>

\* how many times op was called on id in this Run
TimesCalled(op, id) == Cardinality({k \in 1..Len(calls) : calls[k] = <<op, id>>})

\* C33: within one Run, Check, Diff, Backup, Apply and Rollback are each
\* called at most once on a resource and in that order; Diff, Backup and
\* Apply are called only after a Check that succeeded with needsApply = true,
\* Apply only after a Backup that did not fail, Rollback only after an Apply
\* that succeeded; a plan calls nothing but Check and Diff.
C33_ResourceStateMachine ==
    \A id \in Ids :
        /\ \A p \in 1..Len(Phases) : TimesCalled(Phases[p], id) <= 1
        /\ \A p, q \in 1..Len(Phases) :
              (p < q /\ Called(Phases[p], id) /\ Called(Phases[q], id)) =>
                  Pos(calls, <<Phases[p], id>>) < Pos(calls, <<Phases[q], id>>)
        /\ (\E p \in 1..Len(Phases) : Called(Phases[p], id)) =>
              Called("Check", id) /\ Attempted(id)
        /\ Called("Diff", id) =>
              Attempts[id].NeedsApply /\ Attempts[id].EvaluationError = Nil
        /\ (Called("Backup", id) \/ Called("Apply", id)) =>
              /\ Called("Diff", id)
              /\ ~planOnly
        /\ Called("Backup", id) => Attempts[id].BackupAttempted
        /\ Called("Apply", id) =>
              /\ Attempts[id].ApplyAttempted
              /\ Attempts[id].BackupError = Nil
              /\ Attempts[id].BackupAttempted => Called("Backup", id)
        /\ Called("Rollback", id) =>
              /\ Called("Apply", id)
              /\ Attempts[id].Applied
              /\ Attempts[id].ApplyError = Nil
              /\ Attempts[id].RollbackAttempted
              /\ ~planOnly

\* a resource went through all five operations in one Run
C33_Witness ==
    \E id \in Ids :
        /\ \A p \in 1..Len(Phases) : Called(Phases[p], id)
        /\ Attempts[id].BackedUp
        /\ Attempts[id].RolledBack

\* the adjacency lists adj hold every edge counted in added
Covers(adj, added, sources) ==
    \A s \in sources, n \in Names : Count(n, adj[s]) >= added[s][n]

\* C34: with Sort, AddEdge and AddEdgeByName called at the same time, once an
\* edge-adding call has returned the cache is empty or holds an order
\* computed from edges that include the added ones, and the sort() of a Sort
\* that began after the call returned works on edges that include them.
C34_CacheFreshAfterAddEdge ==
    /\ ~cachedOrder.isNil => Covers(cachedFrom, returned, nodes)
    /\ \A t \in Threads :
          threads[t].pc = "sorting" =>
              Covers(threads[t].adj, threads[t].seen, nodes \ threads[t].unread)


\* the edges of the graph's nodes, as pairs
EdgeRel == {<<s, t>> : s \in nodes, t \in Names} \cap
           UNION {{<<s, t>> : t \in Range(edges[s])} : s \in nodes}

\* the edges of the graph hold a directed cycle
GraphHasCycle == \E n \in Names : <<n, n>> \in Closure(EdgeRel, Cardinality(Names))

\* C35: Sort reports a circular dependency only when the edges of the graph
\* hold a directed cycle; on a graph without one, also with an edge to a
\* node that was never added or with duplicate edges, Sort succeeds.
C35_CycleErrorOnlyOnCycle ==
    (gret.op = "Sort" /\ gret.err = ErrCircularDependency) => GraphHasCycle

\* Run got past initialize and Sort and has seen no cancellation
RunUnderWay == pc \notin {"idle"} /\ summary.Error = Nil

\* C36: for any sequence of Add and Run calls, a Run that gets past
\* initialize and Sort and is not cancelled counts every registered spec in
\* TotalCount, visits the registered specs, each once, in an order in which
\* every dependency comes before its dependent, and has made one Attempt for
\* each of them when it returns.
C36_EveryRunCoversRegistry ==
    RunUnderWay =>
        /\ summary.TotalCount = Cardinality(DOMAIN specs)
        /\ Len(order) = Cardinality(DOMAIN specs)
        /\ Range(order) = DOMAIN specs
        /\ \A id \in DOMAIN specs : \A d \in Range(specs[id].Dependencies) :
              d \in Range(order) /\ Pos(order, d) < Pos(order, id)
        /\ pc = "done" => DOMAIN Attempts = DOMAIN specs

\* the change Apply made to the path of the file or directory id is there
InPlace(id) ==
    LET r == specs[id].Resource
    IN CASE res[id].lastOperation = "delete" -> ~fs[r.path].exists
         [] res[id].lastOperation = "create" -> fs[r.path].exists /\ ~fs0[r.path].exists
         [] res[id].lastOperation = "update" ->
               fs[r.path].exists /\ propertiesMatch(r,
                   [currentProperties |-> handleGetFileProperties(fs, r.path).payload])
         [] OTHER -> fs[r.path] = fs0[r.path]

\* C37: when Run has seen the cancellation at a node boundary, it has
\* returned without rolling anything back: RollbackCount is 0, Rollback was
\* called on no resource and no Attempt has RollbackAttempted, the nodes not
\* yet reached have no Attempt, the applied resources are still counted as
\* applied and what their Apply changed is in place.
C37_CancelAtNodeNoRollback ==
    summary.Error = ErrCanceled =>
        /\ pc = "done"
        /\ summary.RollbackCount = 0
        /\ \A id \in DOMAIN Attempts :
              ~Attempts[id].RollbackAttempted /\ ~Attempts[id].RolledBack
        /\ \A id \in Ids : ~Called("Rollback", id)
        /\ \A id \in Unreached : ~Attempted(id)
        /\ summary.AppliedCount = Len(applied)
        /\ \A k \in 1..Len(applied) :
              /\ Attempts[applied[k]].Applied
              /\ applied[k] \in FileIds => InPlace(applied[k])

\* the cancellation was seen at a node after a file or directory was
\* created, updated or deleted in this Run
C37_Witness ==
    /\ summary.Error = ErrCanceled
    /\ pc = "done"
    /\ Unreached # {}
    /\ \E k \in 1..Len(applied) :
          /\ applied[k] \in FileIds
          /\ res[applied[k]].lastOperation # "none"
          /\ fs[specs[applied[k]].Resource.path] # fs0[specs[applied[k]].Resource.path]

\* C38: Rollback of a delete uploads only the artifact that Backup of the
\* same resource wrote in the same Run; when Backup made none in this Run,
\* Rollback returns an error and the agent's filesystem is not changed, also
\* when an earlier run left an artifact of that name.
C38_RollbackIntraRun ==
    [][\A id \in Ids :
          (FileRollbackStep(id) /\ res[id].lastOperation = "delete"
              /\ ~Attempts[id].BackedUp) =>
                  /\ IsErr(Attempts'[id].RollbackError)
                  /\ ~Attempts'[id].RolledBack
                  /\ fs' = fs]_vars

\* C39: two different resources of one registry (different kind or
\* different path) derive different artifact names, so the artifact of a
\* resource that made a backup holds its own archive, and a restore uploads
\* the archive of the resource restored.
C39_ArtifactNamesUnique ==
    /\ \A id1, id2 \in DOMAIN specs :
          specs[id1].Resource # specs[id2].Resource =>
              backupPath(specs[id1].Resource) # backupPath(specs[id2].Resource)
    /\ \A id \in artifacts.made :
          artifacts.dir[backupPath(specs[id].Resource)] = id
    /\ \A u \in artifacts.uploads : u[1] = u[2]

\* C40: with Add called while Run is under way, Run reports a circular
\* dependency only when the registered dependencies hold a cycle, and every
\* node it has processed has a registered spec.
C40_AddDuringRun ==
    /\ summary.Error = Wrap("dependency resolution failed", ErrCircularDependency)
          => HasCycle(specs)
    /\ \A id \in DOMAIN Attempts : id \in DOMAIN specs

=============================================================================
